---- MODULE Spec2Model ----
(***************************************************************************)
(* Contract Management API: the authentication gate, the session           *)
(* lifecycle (login, logout, me, change-password) and the store they act   *)
(* on.                                                                     *)
(*                                                                         *)
(* Text is modelled as a sequence of tokens: a token is one separator      *)
(* character (";", "=", " ", "/"), one percent escape, or one run of       *)
(* other characters.  split, trim, join, toLowerCase and                   *)
(* decodeURIComponent are computed on these sequences.                     *)
(*                                                                         *)
(* One action is one store statement together with the handler code that   *)
(* runs after it up to the next store statement.                           *)
(***************************************************************************)
EXTENDS Integers, Sequences, FiniteSets, TLC

\* ---------------------------------------------------------------- bounds

\* The highest id the sequence of a lookup table assigns.
MaxLookupId == 3

\* The highest id the sequence of the contract table assigns.
MaxContracts == 1

\* Session ids randomUUID can still return (each is returned at most once).
MaxSessions == 2

\* Requests that can be in flight at the same time.
MaxClients == 1

\* ------------------------------------------------------------------ text

RECURSIVE TrimStart(_)
TrimStart(s) ==
    IF s # <<>> /\ Head(s) = " " THEN TrimStart(Tail(s)) ELSE s

RECURSIVE TrimEnd(_)
TrimEnd(s) ==
    IF s # <<>> /\ s[Len(s)] = " " THEN TrimEnd(SubSeq(s, 1, Len(s) - 1)) ELSE s

\* String.prototype.trim
Trim(s) == TrimEnd(TrimStart(s))

LowerToken(t) ==
    CASE t = "A" -> "a"
      [] t = "B" -> "b"
      [] t = "Bearer" -> "bearer"
      [] t = "BEARER" -> "bearer"
      [] t = "Operations" -> "operations"
      [] t = "ACTIVE" -> "active"
      [] t = "TRUE" -> "true"
      [] t = "Yes" -> "yes"
      [] t = "Y" -> "y"
      [] t = "ON" -> "on"
      [] t = "False" -> "false"
      [] t = "No" -> "no"
      [] t = "N" -> "n"
      [] t = "OFF" -> "off"
      [] OTHER -> t

\* String.prototype.toLowerCase
ToLowerCase(s) == [i \in 1..Len(s) |-> LowerToken(s[i])]

\* String.prototype.split(sep): at least one piece, empty pieces kept
RECURSIVE Split(_, _)
Split(s, sep) ==
    IF \E i \in 1..Len(s) : s[i] = sep
    THEN LET i == CHOOSE k \in 1..Len(s) :
                      s[k] = sep /\ \A j \in 1..(k - 1) : s[j] # sep
         IN  <<SubSeq(s, 1, i - 1)>> \o Split(SubSeq(s, i + 1, Len(s)), sep)
    ELSE <<s>>

\* Array.prototype.join(sep)
RECURSIVE Join(_, _)
Join(parts, sep) ==
    IF parts = <<>> THEN <<>>
    ELSE IF Len(parts) = 1 THEN parts[1]
    ELSE parts[1] \o <<sep>> \o Join(Tail(parts), sep)

DecodeToken(t) ==
    CASE t = "%3D" -> "="
      [] t = "%20" -> " "
      [] t = "%3B" -> ";"
      [] OTHER -> t

\* decodeURIComponent: a "%" that starts no escape throws URIError
decodeURIComponent(s) ==
    IF \E i \in 1..Len(s) : s[i] = "%"
    THEN [kind |-> "throw", text |-> <<>>]
    ELSE [kind |-> "string", text |-> [i \in 1..Len(s) |-> DecodeToken(s[i])]]

\* An optional value: <<>> is undefined, <<v>> is v.
Undefined == <<>>
Some(v) == <<v>>
IsDefined(o) == o # <<>>
Get(o) == o[1]

\* ------------------------------------------------------- auth.js helpers

SESSION_COOKIE_NAME == <<"cm_session">>

USER_STATUSES == {"pending", "active", "inactive"}

\* the loop over the cookies of the Cookie header
RECURSIVE FindSessionCookie(_)
FindSessionCookie(cookies) ==
    IF cookies = <<>> THEN [kind |-> "none", text |-> <<>>]
    ELSE LET parts == Split(Trim(Head(cookies)), "=")
             key   == parts[1]
             rest  == Tail(parts)
         IN  IF key = SESSION_COOKIE_NAME
             THEN decodeURIComponent(Join(rest, "="))
             ELSE FindSessionCookie(Tail(cookies))

NullId == [kind |-> "null", text |-> <<>>]

FromAuthorization(headers) ==
    LET auth == headers.authorization
    IN  IF IsDefined(auth)
           /\ Len(Get(auth)) >= 2
           /\ ToLowerCase(Get(auth))[1] = "bearer"
           /\ Get(auth)[2] = " "
        THEN LET token == Trim(SubSeq(Get(auth), 3, Len(Get(auth))))
             IN  IF token # <<>> THEN [kind |-> "string", text |-> token]
                 ELSE NullId
        ELSE NullId

FromSessionHeader(headers) ==
    LET headerToken == headers.xSessionId
    IN  IF IsDefined(headerToken) /\ Len(Trim(Get(headerToken))) > 0
        THEN [kind |-> "string", text |-> Trim(Get(headerToken))]
        ELSE FromAuthorization(headers)

\* extractSessionId(req): "string" with its text, "null", or "throw"
extractSessionId(headers) ==
    LET cookieHeader == headers.cookie
        found == IF IsDefined(cookieHeader) /\ Get(cookieHeader) # <<>>
                 THEN FindSessionCookie(Split(Get(cookieHeader), ";"))
                 ELSE [kind |-> "none", text |-> <<>>]
    IN  IF found.kind # "none" THEN found ELSE FromSessionHeader(headers)

\* !sessionId
Falsy(id) == id.kind = "null" \/ (id.kind = "string" /\ id.text = <<>>)

\* ----------------------------------------------------- server.js helpers

PathLogin          == <<"/", "auth", "/", "login">>
PathLogout         == <<"/", "auth", "/", "logout">>
PathMe             == <<"/", "auth", "/", "me">>
PathChangePassword == <<"/", "auth", "/", "change-password">>
PathHealth         == <<"/", "health">>
PathContracts      == <<"/", "contracts">>
PathDepartments    == <<"/", "departments">>
PathStatuses       == <<"/", "statuses">>

AUTH_EXEMPT_PATHS == {PathLogin, PathLogout}

\* pathname.replace(/\/+$/, '')
RECURSIVE StripTrailingSlashes(_)
StripTrailingSlashes(p) ==
    IF p # <<>> /\ p[Len(p)] = "/"
    THEN StripTrailingSlashes(SubSeq(p, 1, Len(p) - 1))
    ELSE p

EndsWith(s, suffix) ==
    /\ Len(s) >= Len(suffix)
    /\ SubSeq(s, Len(s) - Len(suffix) + 1, Len(s)) = suffix

isAuthExemptPath(pathname) ==
    IF pathname = <<>> THEN FALSE
    ELSE LET normalized == IF Len(pathname) > 1
                           THEN StripTrailingSlashes(pathname)
                           ELSE pathname
         IN  \/ normalized \in AUTH_EXEMPT_PATHS
             \/ \E exempt \in AUTH_EXEMPT_PATHS :
                    /\ Len(normalized) > Len(exempt)
                    /\ EndsWith(normalized, exempt)
                    /\ normalized[Len(normalized) - Len(exempt)] = "/"

\* the allow-list with the contracts router added to it
allowedWhenMustChangeWithContracts ==
    {PathChangePassword, PathLogout, PathMe, PathHealth, PathContracts}

allowedWhenMustChange == {PathChangePassword, PathLogout, PathMe, PathHealth}

\* the path is the mount path followed by one more segment: the route
\* '/:id' of the router mounted there matches it
OneSegmentBelow(p, mount) ==
    /\ Len(p) = Len(mount) + 2
    /\ SubSeq(p, 1, Len(mount)) = mount
    /\ p[Len(mount) + 1] = "/"
    /\ p[Len(mount) + 2] # "/"

\* routing that lets '/:id' match every path below the mount path
RouteBelowMount(method, path) ==
    IF \E mount \in {PathContracts, PathDepartments, PathStatuses} :
          /\ Len(path) > Len(mount)
          /\ SubSeq(path, 1, Len(mount)) = mount
          /\ path[Len(mount) + 1] = "/"
    THEN path[2]
    ELSE "none"

\* Express routing (non-strict: one trailing slash is optional): the handler
\* that app.get('/health') and the mounted routers match, "none" when no
\* route matches (Express answers 404).
Route(method, path) ==
    LET p == IF Len(path) > 1 /\ path[Len(path)] = "/"
             THEN SubSeq(path, 1, Len(path) - 1) ELSE path
    IN  CASE method = "POST" /\ p = PathLogin          -> "login"
          [] method = "POST" /\ p = PathLogout         -> "logout"
          [] method = "GET"  /\ p = PathMe             -> "me"
          [] method = "POST" /\ p = PathChangePassword -> "change-password"
          [] method = "GET"  /\ p = PathHealth         -> "health"
          [] method \in {"GET", "POST"} /\ p = PathContracts   -> "contracts"
          [] method \in {"GET", "POST"} /\ p = PathDepartments -> "departments"
          [] method \in {"GET", "POST"} /\ p = PathStatuses    -> "statuses"
          [] method = "GET" /\ OneSegmentBelow(p, PathContracts) -> "contracts"
          [] method \in {"PATCH", "DELETE"} /\ OneSegmentBelow(p, PathContracts)
                -> "contracts"
          [] method \in {"PATCH", "DELETE"} /\ OneSegmentBelow(p, PathDepartments)
                -> "departments"
          [] method \in {"PATCH", "DELETE"} /\ OneSegmentBelow(p, PathStatuses)
                -> "statuses"
          [] OTHER -> "none"

\* ----------------------------------------------------------------- state

Users == {101, 102}

\* user_account.username (stored trimmed and in lower case)
Username(u) == IF u = 101 THEN <<"a">> ELSE <<"b">>

\* password_hash: the password a hash was made from stands for the hash
password_hash(p) == [hashOf |-> p]

\* pgcrypto crypt(password, hash): equals hash exactly when hash was made
\* from password
crypt(p, hash) == [hashOf |-> p]

InitialPassword == "first-pass"
OtherPassword   == "other-pass"
ShortPassword   == "short"

SidName == <<"s1", "s2", "s3", "s4">>
SessionIds == {SidName[i] : i \in 1..MaxSessions}

\* the text of a session id
SidText(s) == <<s>>

VARIABLES
    user_account,   \* [Users -> row]: the committed account table
    user_session,   \* set of rows: the committed session table
    issued,         \* how many session ids randomUUID has returned
    reqs,           \* the requests in flight between two store statements
    refreshes,      \* session ids with a detached updateSessionActivity pending
    resp,           \* what the last step sent to its client, or NoResp
    faulty,         \* whether a statement sent to the store can fail
    call,           \* a call of a pure helper: its arguments and its result
    lookup,         \* the department and status tables: table name -> rows
    contract,       \* set of rows: the contract table
    serial          \* table name -> the last id its sequence has assigned

\* the tables behind the contracts, departments and statuses routers
tables == <<lookup, contract, serial>>

vars == <<user_account, user_session, issued, reqs, refreshes, resp, faulty, call, tables>>

NoResp == [by |-> "none"]
NoCall == [fn |-> "none"]

\* The accounts the store starts with: 101 was created with a temporary
\* password; 102 has a status the API does not know, or none.
InitialAccounts ==
    {[u \in Users |->
        [user_id |-> u, username |-> Username(u),
         status |-> IF u = 101 THEN st1 ELSE st2,
         password_hash |-> password_hash(InitialPassword),
         password_must_change |-> (u = 101),
         last_login_at |-> "never"]] :
     st1 \in {"pending", "active"}, st2 \in {"suspended", "NULL"}}

Tables == {"department", "status"}

\* The rows the lookup tables start with, and the last value of each id
\* sequence; there is no contract yet.
SeedLookup ==
    [t \in Tables |->
        IF t = "department"
        THEN {[id |-> 1, name |-> <<"operations">>], [id |-> 2, name |-> <<"shelters">>]}
        ELSE {[id |-> 1, name |-> <<"pending">>], [id |-> 2, name |-> <<"active">>]}]

SeedSerial == [t \in Tables \cup {"contract"} |-> IF t = "contract" THEN 0 ELSE 2]

SeededTables ==
    /\ lookup = SeedLookup
    /\ contract = {}
    /\ serial = SeedSerial

\* the server has started; no request has been made
Started ==
    /\ SeededTables
    /\ user_account \in InitialAccounts
    /\ user_session = {}
    /\ issued = 0
    /\ reqs = {}
    /\ refreshes = {}
    /\ resp = NoResp
    /\ call = NoCall

\* any statement sent to the store may fail (pool.query or client.query
\* rejects)
Init == Started /\ faulty = TRUE

\* the store answers every statement
InitStoreUp == Started /\ faulty = FALSE

\* the outcomes of one statement: TRUE when the store answers it
Outcomes == IF faulty THEN BOOLEAN ELSE {TRUE}

\* ------------------------------------------------------------ store reads

normalizeUserRow(row) ==
    [user_id |-> row.user_id, username |-> row.username, status |-> row.status,
     last_login_at |-> row.last_login_at,
     password_must_change |-> row.password_must_change]

\* fetchUserBySession: the session row joined to its account, or null
fetchUserBySession(sessionId) ==
    LET rows == {s \in user_session : SidText(s.session_id) = sessionId.text}
    IN  IF rows # {}
        THEN Some(normalizeUserRow(user_account[(CHOOSE s \in rows : TRUE).user_id]))
        ELSE Undefined

\* ------------------------------------------------------------ requests

\* What a client can put in the three places a session id is read from.
HeaderSamples ==
    [cookie : {Undefined}
                \cup {Some(<<"cm_session", "=", s>>) : s \in SessionIds}
                \cup {Some(<<"cm_session", "=">>), Some(<<"cm_session", "=", "%">>)},
     xSessionId : {Undefined} \cup {Some(<<s>>) : s \in SessionIds},
     authorization : {Undefined} \cup {Some(<<"Bearer", " ", s>>) : s \in SessionIds}]

\* The session ids extractSessionId reads from the sample headers.
PresentedIds == {extractSessionId(headers) : headers \in HeaderSamples}

RequestLines ==
    {<<"POST", PathLogout>>, <<"POST", PathLogout \o <<"/">> >>,
     <<"GET", PathMe>>, <<"GET", PathMe \o <<"/">> >>,
     <<"POST", PathChangePassword>>, <<"GET", PathHealth>>,
     <<"GET", PathContracts>>,
     <<"GET", PathContracts \o <<"/", "login">> >>,
     <<"GET", PathContracts \o <<"/">> \o PathLogin>>,
     <<"DELETE", PathDepartments \o <<"/">> \o PathLogout \o <<"/">> >>,
     <<"GET", PathLogin>>,
     <<"GET", <<"/", "missing">> >>, <<"OPTIONS", PathContracts>>}

\* The request lines Express routes to one of the handlers.
LinesOf(handlers) ==
    {line \in RequestLines : line[1] # "OPTIONS" /\ Route(line[1], line[2]) \in handlers}

LinesNone      == LinesOf({"none"})
LinesHealth    == LinesOf({"health"})
LinesResource  == LinesOf({"contracts", "departments", "statuses"})
LinesLogout    == LinesOf({"logout"})
LinesMe        == LinesOf({"me"})
LinesChangePwd == LinesOf({"change-password"})
LinesGated     == {line \in RequestLines : line[1] # "OPTIONS"}
LinesOptions   == {line \in RequestLines : line[1] = "OPTIONS"}

\* What a step sent: who sent it (cors, gate, router, handler; "next" when
\* the gate forwarded the request to a handler that has not answered yet),
\* the request, the handler the request reached ("none" when none ran),
\* req.user when the gate attached one, what was done to the session cookie,
\* and how many pool connections the request checked out and released.
Response(by, path, input, sessionId, user, handler, status, error, cookie, body) ==
    [by |-> by, path |-> path, input |-> input, sessionId |-> sessionId,
     user |-> user, handler |-> handler, status |-> status, error |-> error,
     cookie |-> cookie, body |-> body,
     pool |-> [connected |-> 0, released |-> 0]]

NoInput == [none |-> TRUE]
NoBody == [none |-> TRUE]

\* the allow-list applied to every account, whatever its flag
mustChangeBlocksEveryAccount(user, path) ==
    path \notin allowedWhenMustChange

\* req.user.password_must_change && !allowedWhenMustChange.has(req.path)
mustChangeBlocks(user, path) ==
    user.password_must_change /\ path \notin allowedWhenMustChange

\* The global auth gate (the OPTIONS short cut is taken by the CORS
\* middleware before it): its decision for one request.  extracted is
\* extractSessionId(req); lookupOk: the store answers the session lookup.
Gate(path, extracted, lookupOk) ==
    IF isAuthExemptPath(path)
    THEN [decision |-> "next", status |-> 0, error |-> "",
          sessionId |-> NullId, user |-> Undefined, cookie |-> "untouched"]
    ELSE
    LET sessionId == extracted IN
    IF sessionId.kind = "throw"
    THEN [decision |-> "reject", status |-> 500, error |-> "Internal server error",
          sessionId |-> sessionId, user |-> Undefined, cookie |-> "untouched"]
    ELSE IF Falsy(sessionId)
    THEN [decision |-> "reject", status |-> 401, error |-> "Not authenticated",
          sessionId |-> sessionId, user |-> Undefined, cookie |-> "cleared"]
    ELSE IF ~lookupOk
    THEN [decision |-> "reject", status |-> 500, error |-> "Internal server error",
          sessionId |-> sessionId, user |-> Undefined, cookie |-> "untouched"]
    ELSE
    LET user == fetchUserBySession(sessionId) IN
    IF ~IsDefined(user)
    THEN [decision |-> "reject", status |-> 401, error |-> "Not authenticated",
          sessionId |-> sessionId, user |-> Undefined, cookie |-> "cleared"]
    ELSE IF mustChangeBlocks(Get(user), path)
    THEN [decision |-> "reject", status |-> 403, error |-> "Password change required",
          sessionId |-> sessionId, user |-> user, cookie |-> "untouched"]
    ELSE [decision |-> "next", status |-> 0, error |-> "",
          sessionId |-> sessionId, user |-> user, cookie |-> "untouched"]

\* updateSessionActivity(sessionId) is started, detached, once req.user is set
Spawned(g) ==
    IF IsDefined(g.user) THEN refreshes \cup {g.sessionId.text[1]} ELSE refreshes

\* the last response has been delivered
Quiet == resp = NoResp

\* a request that needs several store statements can be taken on
CanStart == Quiet /\ Cardinality(reqs) < MaxClients

\* the response reaches its client
Deliver ==
    /\ resp # NoResp
    /\ resp' = NoResp
    /\ UNCHANGED <<user_account, user_session, issued, reqs, refreshes, faulty, call, tables>>

\* the CORS middleware answers every OPTIONS request itself
CorsPreflight ==
    /\ Quiet
    /\ \E line \in LinesOptions :
        resp' = Response("cors", line[2], NoInput, NullId, Undefined,
                         "none", 204, "", "untouched", NoBody)
    /\ UNCHANGED <<user_account, user_session, issued, reqs, refreshes, faulty, call, tables>>

\* the gate answers 401, 403 or 500 itself
GateReject ==
    /\ Quiet
    /\ \E line \in LinesGated, extracted \in PresentedIds, lookupOk \in Outcomes :
        LET g == Gate(line[2], extracted, lookupOk) IN
        /\ g.decision = "reject"
        /\ refreshes' = Spawned(g)
        /\ resp' = Response("gate", line[2], NoInput, g.sessionId, g.user,
                            "none", g.status, g.error, g.cookie, NoBody)
    /\ UNCHANGED <<user_account, user_session, issued, reqs, faulty, call, tables>>

\* no route matches: Express answers 404
NotFound ==
    /\ Quiet
    /\ \E line \in LinesNone, extracted \in PresentedIds :
        LET g == Gate(line[2], extracted, TRUE) IN
        /\ g.decision = "next"
        /\ refreshes' = Spawned(g)
        /\ resp' = Response("router", line[2], NoInput, g.sessionId, g.user,
                            "none", 404, "", g.cookie, NoBody)
    /\ UNCHANGED <<user_account, user_session, issued, reqs, faulty, call, tables>>

\* app.get('/health')
Health ==
    /\ Quiet
    /\ \E line \in LinesHealth, extracted \in PresentedIds :
        LET g == Gate(line[2], extracted, TRUE) IN
        /\ g.decision = "next"
        /\ refreshes' = Spawned(g)
        /\ resp' = Response("handler", line[2], NoInput, g.sessionId, g.user,
                            "health", 200, "", g.cookie, [ok |-> TRUE])
    /\ UNCHANGED <<user_account, user_session, issued, reqs, faulty, call, tables>>

\* the contracts, departments and statuses routers: the request reaches
\* its handler with req.user attached
Resource ==
    /\ Quiet
    /\ \E line \in LinesResource, extracted \in PresentedIds :
        LET g == Gate(line[2], extracted, TRUE) IN
        /\ g.decision = "next"
        /\ refreshes' = Spawned(g)
        /\ resp' = Response("handler", line[2], NoInput, g.sessionId, g.user,
                            Route(line[1], line[2]), 200, "", g.cookie, NoBody)
    /\ UNCHANGED <<user_account, user_session, issued, reqs, faulty, call, tables>>

\* a refresh whose failure is answered as an error of the request
RefreshRaising(s) ==
    /\ Quiet
    /\ s \in refreshes
    /\ refreshes' = refreshes \ {s}
    /\ \E ok \in Outcomes :
        /\ user_session' =
            IF ok
            THEN {IF r.session_id = s THEN [r EXCEPT !.last_seen_at = "refreshed"]
                  ELSE r : r \in user_session}
            ELSE user_session
        /\ resp' = IF ok THEN NoResp
                   ELSE Response("gate", <<>>, NoInput, NullId, Undefined, "none", 500,
                                 "Internal server error", "untouched", NoBody)
    /\ UNCHANGED <<user_account, issued, reqs, faulty, call, tables>>

\* a refresh that writes the row of the session whether it is there or not
RefreshUpserting(s) ==
    /\ Quiet
    /\ s \in refreshes
    /\ refreshes' = refreshes \ {s}
    /\ \E ok \in Outcomes :
        user_session' =
            IF ok
            THEN {r \in user_session : r.session_id # s}
                 \cup {[session_id |-> s, user_id |-> 101, last_seen_at |-> "refreshed"]}
            ELSE user_session
    /\ resp' = NoResp
    /\ UNCHANGED <<user_account, issued, reqs, faulty, call, tables>>

\* updateSessionActivity: the detached statement is applied (or fails, which
\* is logged and swallowed)
Refresh(s) ==
    /\ Quiet
    /\ s \in refreshes
    /\ refreshes' = refreshes \ {s}
    /\ \E ok \in Outcomes :
        user_session' =
            IF ok
            THEN {IF r.session_id = s THEN [r EXCEPT !.last_seen_at = "refreshed"]
                  ELSE r : r \in user_session}
            ELSE user_session
    /\ resp' = NoResp
    /\ UNCHANGED <<user_account, issued, reqs, faulty, call, tables>>

\* a DELETE that matches no row
DeleteSessionNoRow(sessionId) == user_session

\* a delete without its WHERE clause
DeleteEverySession(sessionId) == {}

\* DELETE FROM user_session WHERE session_id = $1
DeleteSession(sessionId) ==
    {r \in user_session : SidText(r.session_id) # sessionId.text}

\* router.post('/logout')
Logout ==
    /\ Quiet
    /\ \E line \in LinesLogout, extracted \in PresentedIds, deleteOk \in Outcomes :
        LET g == Gate(line[2], extracted, TRUE)
            sessionId == extracted
        IN
        /\ g.decision = "next"
        /\ refreshes' = Spawned(g)
        /\ IF sessionId.kind = "throw" \/ (~Falsy(sessionId) /\ ~deleteOk)
           THEN /\ resp' = Response("handler", line[2], NoInput, sessionId,
                                    g.user, "logout", 500, "Internal server error",
                                    "untouched", NoBody)
                /\ UNCHANGED user_session
           ELSE /\ user_session' =
                     IF Falsy(sessionId) THEN user_session
                     ELSE DeleteSession(sessionId)
                /\ resp' = Response("handler", line[2], NoInput, sessionId,
                                    g.user, "logout", 204, "", "cleared", NoBody)
    /\ UNCHANGED <<user_account, issued, reqs, faulty, call, tables>>

\* ----------------------------------------------------------------- login

UsernameInputs ==
    {Undefined, Some(<<"a">>), Some(<<" ", "A", " ">>), Some(<<"B">>),
     Some(<<"a", "b">>)}

PasswordInputs ==
    {Some(""), Some(InitialPassword), Some(OtherPassword)}

\* !username (a text), !password (a string)
MissingText(o) == ~IsDefined(o) \/ Get(o) = <<>>
MissingString(o) == ~IsDefined(o) \/ Get(o) = ""

\* the credential query without its password condition
CredentialRowsAnyPassword(username, password) ==
    {u \in Users : user_account[u].username = username}

\* the credential query: WHERE username = $1 AND password_hash = crypt($2, password_hash)
CredentialRows(username, password) ==
    {u \in Users :
        /\ user_account[u].username = username
        /\ user_account[u].password_hash = crypt(password, user_account[u].password_hash)}

\* String(user.status ?? '').trim().toLowerCase(); a stored status is one
\* word, or NULL
normalizedStatus(status) ==
    LET text == ToLowerCase(Trim(IF status = "NULL" THEN <<>> ELSE <<status>>))
    IN  IF text = <<>> THEN "" ELSE text[1]

\* a row lock taken by a login's UPDATE is held until its transaction ends
Locked(u) ==
    \E r \in reqs : r.pc = "login_commit" /\ r.user.user_id = u

\* randomUUID(): an id never returned before
randomUUID == SidName[issued + 1]

\* The connection of one login: whether the variable client holds it, how
\* often the request has checked one out and how often it has released one.
NoClient == [client |-> FALSE, connected |-> 0, released |-> 0]

\* client = await pool.connect()
Connected == [client |-> TRUE, connected |-> 1, released |-> 0]

\* client.release(); client = null
ReleaseAndClear(c) == [c EXCEPT !.client = FALSE, !.released = @ + 1]

\* a catch that releases and keeps the variable
catchKeepingClient(c) ==
    IF c.client THEN [c EXCEPT !.released = @ + 1] ELSE c

\* catch (err) { if (client) { ROLLBACK; client.release(); client = null } }
catch(c) == IF c.client THEN ReleaseAndClear(c) ELSE c

\* finally { if (client) client.release() }
finally(c) == IF c.client THEN [c EXCEPT !.released = @ + 1] ELSE c

\* The exits of the login handler: a return before the connection is taken
\* (400), a throw of pool.connect(), a throw of a statement, a return inside
\* the try with the connection held (401, 403), and the return after COMMIT.
ExitRejected == finally(NoClient)
ExitConnectThrew == finally(catch(NoClient))
ExitStatementThrew == finally(catch(Connected))
ExitReturnedHolding == finally(Connected)
ExitCommitted == finally(ReleaseAndClear(Connected))

\* a 401 whose message tells a wrong password from an unknown username
LoginResponseNamingCause(input, status, error, cookie, body, exit) ==
    [Response("handler", PathLogin, input, NullId, Undefined, "login", status,
              IF /\ status = 401
                 /\ \E u \in Users :
                        user_account[u].username = ToLowerCase(Trim(Get(input.username)))
              THEN "Invalid password" ELSE error,
              cookie, body)
       EXCEPT !.pool = [connected |-> exit.connected, released |-> exit.released]]

LoginResponse(input, status, error, cookie, body, exit) ==
    [Response("handler", PathLogin, input, NullId, Undefined, "login",
              status, error, cookie, body)
       EXCEPT !.pool = [connected |-> exit.connected, released |-> exit.released]]

\* the statement of the first part of login that throws, if any
LoginFaults ==
    IF faulty THEN {"none", "connect", "BEGIN", "SELECT", "ROLLBACK"} ELSE {"none"}

\* router.post('/login') up to and including the credential query.
\* fault: the statement that throws, if any.
LoginStart ==
    /\ Quiet
    /\ Gate(PathLogin, NullId, TRUE).decision = "next"
    /\ Route("POST", PathLogin) = "login"
    /\ \E username \in UsernameInputs, password \in PasswordInputs,
          fault \in LoginFaults :
        LET input == [username |-> username, password |-> password]
            rows == CredentialRows(ToLowerCase(Trim(Get(username))), Get(password))
            user == user_account[CHOOSE u \in rows : TRUE]
            status == normalizedStatus(user.status)
        IN
        IF MissingText(username) \/ MissingString(password)
        THEN /\ fault = "none"
             /\ resp' = LoginResponse(input, 400, "username and password are required",
                                      "untouched", NoBody, ExitRejected)
             /\ UNCHANGED <<reqs, issued>>
        ELSE IF fault = "connect"
        THEN /\ resp' = LoginResponse(input, 500, "Internal server error",
                                      "untouched", NoBody, ExitConnectThrew)
             /\ UNCHANGED <<reqs, issued>>
        ELSE IF fault \in {"BEGIN", "SELECT"}
        THEN /\ resp' = LoginResponse(input, 500, "Internal server error",
                                      "untouched", NoBody, ExitStatementThrew)
             /\ UNCHANGED <<reqs, issued>>
        ELSE IF rows = {}
        THEN /\ resp' = IF fault = "ROLLBACK"
                        THEN LoginResponse(input, 500, "Internal server error",
                                           "untouched", NoBody, ExitStatementThrew)
                        ELSE LoginResponse(input, 401, "Invalid username or password",
                                           "untouched", NoBody, ExitReturnedHolding)
             /\ UNCHANGED <<reqs, issued>>
        ELSE IF status \notin USER_STATUSES \/ status = "inactive"
        THEN /\ resp' = IF fault = "ROLLBACK"
                        THEN LoginResponse(input, 500, "Internal server error",
                                           "untouched", NoBody, ExitStatementThrew)
                        ELSE LoginResponse(input, 403,
                                           IF status = "inactive"
                                           THEN "User account is inactive"
                                           ELSE "User status does not permit login",
                                           "untouched", NoBody, ExitReturnedHolding)
             /\ UNCHANGED <<reqs, issued>>
        ELSE /\ fault = "none"
             /\ Cardinality(reqs) < MaxClients
             /\ issued < MaxSessions
             /\ issued' = issued + 1
             /\ reqs' = reqs \cup
                    {[pc |-> "login_update", input |-> input, user |-> user,
                      sessionId |-> randomUUID]}
             /\ resp' = NoResp
    /\ UNCHANGED <<user_account, user_session, refreshes, faulty, call, tables>>

\* a statement of the transaction throws: catch, ROLLBACK, release, 500
LoginFail(r) ==
    /\ faulty
    /\ reqs' = reqs \ {r}
    /\ resp' = LoginResponse(r.input, 500, "Internal server error",
                             "untouched", NoBody, ExitStatementThrew)
    /\ UNCHANGED <<user_account, user_session, issued, refreshes, faulty, call, tables>>

\* the UPDATE without its CASE: every status becomes active
LoginWritesActive(r) ==
    [status |-> "active",
     last_login_at |-> r.sessionId,
     session |-> [session_id |-> r.sessionId, user_id |-> r.user.user_id,
                  last_seen_at |-> "created"]]

\* what the transaction has written and not yet committed, after
\* UPDATE user_account SET status = CASE ..., last_login_at = NOW() and
\* INSERT INTO user_session.  NOW() is the time of the transaction, named by
\* the session id the transaction generated.
LoginWrites(r) ==
    LET row == user_account[r.user.user_id] IN
    [status |-> IF row.status = "pending" THEN "active" ELSE row.status,
     last_login_at |-> r.sessionId,
     session |-> [session_id |-> r.sessionId, user_id |-> r.user.user_id,
                  last_seen_at |-> "created"]]

\* the UPDATE sent outside the transaction (through the pool): it is
\* committed at once
LoginUpdateAutocommit(r) ==
    /\ Quiet
    /\ r.pc = "login_update"
    /\ \/ /\ ~Locked(r.user.user_id)
          /\ user_account' =
               [user_account EXCEPT ![r.user.user_id] =
                  [@ EXCEPT !.status = LoginWrites(r).status,
                            !.last_login_at = LoginWrites(r).last_login_at]]
          /\ reqs' = (reqs \ {r}) \cup
                 {[pc |-> "login_commit", input |-> r.input, user |-> r.user,
                   sessionId |-> r.sessionId, tx |-> LoginWrites(r)]}
          /\ resp' = NoResp
          /\ UNCHANGED <<user_session, issued, refreshes, faulty, call, tables>>
       \/ LoginFail(r)

\* the UPDATE and the INSERT of the login transaction
LoginUpdate(r) ==
    /\ Quiet
    /\ r.pc = "login_update"
    /\ \/ /\ ~Locked(r.user.user_id)
          /\ reqs' = (reqs \ {r}) \cup
                 {[pc |-> "login_commit", input |-> r.input, user |-> r.user,
                   sessionId |-> r.sessionId, tx |-> LoginWrites(r)]}
          /\ resp' = NoResp
          /\ UNCHANGED <<user_account, user_session, issued, refreshes, faulty, call, tables>>
       \/ LoginFail(r)

\* an INSERT that first removes the sessions the account already has
InsertSessionReplacing(session) ==
    {s \in user_session : s.user_id # session.user_id} \cup {session}

\* INSERT INTO user_session (session_id, user_id) VALUES ($1, $2), committed
InsertSession(session) == user_session \cup {session}

\* COMMIT, release, setSessionCookie, res.json
LoginCommit(r) ==
    /\ Quiet
    /\ r.pc = "login_commit"
    /\ \/ /\ user_account' =
               [user_account EXCEPT ![r.user.user_id] =
                  [@ EXCEPT !.status = r.tx.status,
                            !.last_login_at = r.tx.last_login_at]]
          /\ user_session' = InsertSession(r.tx.session)
          /\ reqs' = reqs \ {r}
          /\ resp' = LoginResponse(r.input, 200, "", r.sessionId,
                                   [session_id |-> r.sessionId]
                                       @@ normalizeUserRow(r.user), ExitCommitted)
          /\ UNCHANGED <<issued, refreshes, faulty, call, tables>>
       \/ LoginFail(r)

\* ------------------------------------------------ me, change-password

\* the gate forwards the request to a handler that starts with a statement
Forwarded(line, g) ==
    Response("next", line[2], NoInput, g.sessionId, g.user, Route(line[1], line[2]),
             0, "", g.cookie, NoBody)

\* GET /auth/me passes the gate; its handler then looks the session up again
MeStart ==
    /\ CanStart
    /\ \E line \in LinesMe, extracted \in PresentedIds :
        LET g == Gate(line[2], extracted, TRUE)
            r == [pc |-> "me", path |-> line[2], sessionId |-> extracted]
        IN
        /\ g.decision = "next"
        /\ refreshes' = Spawned(g)
        /\ r \notin reqs
        /\ reqs' = reqs \cup {r}
        /\ resp' = Forwarded(line, g)
    /\ UNCHANGED <<user_account, user_session, issued, faulty, call, tables>>

\* router.get('/me')
Me(r) ==
    /\ Quiet
    /\ r.pc = "me"
    /\ \E lookupOk \in Outcomes :
        LET user == fetchUserBySession(r.sessionId) IN
        resp' =
          IF ~lookupOk
          THEN Response("handler", r.path, NoInput, r.sessionId, Undefined,
                        "me", 500, "Internal server error", "untouched", NoBody)
          ELSE IF Falsy(r.sessionId) \/ ~IsDefined(user)
          THEN Response("handler", r.path, NoInput, r.sessionId, Undefined,
                        "me", 401, "Not authenticated", "cleared", NoBody)
          ELSE Response("handler", r.path, NoInput, r.sessionId, Undefined,
                        "me", 200, "", "untouched", Get(user))
    /\ reqs' = reqs \ {r}
    /\ UNCHANGED <<user_account, user_session, issued, refreshes, faulty, call, tables>>

CurrentPasswordInputs ==
    {Undefined, Some(InitialPassword), Some(OtherPassword)}

NewPasswordInputs ==
    {Undefined, Some(ShortPassword), Some(OtherPassword)}

\* String(x || '')
StringOrEmpty(o) == IF IsDefined(o) THEN Get(o) ELSE ""

\* POST /auth/change-password passes the gate
ChangePasswordStart ==
    /\ CanStart
    /\ \E line \in LinesChangePwd, extracted \in PresentedIds :
        LET g == Gate(line[2], extracted, TRUE)
            r == [pc |-> "cp_fetch", sessionId |-> extracted]
        IN
        /\ g.decision = "next"
        /\ refreshes' = Spawned(g)
        /\ r \notin reqs
        /\ reqs' = reqs \cup {r}
        /\ resp' = Forwarded(line, g)
    /\ UNCHANGED <<user_account, user_session, issued, faulty, call, tables>>

ChangePasswordResponse(sessionId, user_id, input, status, error) ==
    [Response("handler", PathChangePassword, input, sessionId, Undefined,
              "change-password", status, error, "untouched", NoBody)
       EXCEPT !.body = [user_id |-> user_id]]

\* router.post('/change-password'): fetchUserBySession, then the body is
\* read and checked
ChangePasswordFetch(r) ==
    /\ Quiet
    /\ r.pc = "cp_fetch"
    /\ \E lookupOk \in Outcomes, current_password \in CurrentPasswordInputs,
          new_password \in NewPasswordInputs :
        LET currentUser == fetchUserBySession(r.sessionId)
            input == [current_password |-> current_password,
                      new_password |-> new_password]
            cur == StringOrEmpty(current_password)
            nxt == StringOrEmpty(new_password)
            user_id == IF IsDefined(currentUser) THEN Get(currentUser).user_id ELSE 0
            answer(status, error) ==
                ChangePasswordResponse(r.sessionId, user_id, input, status, error)
        IN
        IF ~lookupOk
        THEN /\ resp' = ChangePasswordResponse(r.sessionId, 0, input, 500,
                                               "Internal server error")
             /\ reqs' = reqs \ {r}
        ELSE IF Falsy(r.sessionId) \/ ~IsDefined(currentUser)
        THEN /\ resp' = answer(401, "Not authenticated")
             /\ reqs' = reqs \ {r}
        ELSE IF Len(cur) = 0 \/ Len(nxt) = 0
        THEN /\ resp' = answer(400, "current_password and new_password are required")
             /\ reqs' = reqs \ {r}
        ELSE IF Len(nxt) < 8
        THEN /\ resp' = answer(400, "New password must be at least 8 characters")
             /\ reqs' = reqs \ {r}
        ELSE /\ resp' = NoResp
             /\ reqs' = (reqs \ {r}) \cup
                    {[pc |-> "cp_check", sessionId |-> r.sessionId,
                      user_id |-> user_id, input |-> input]}
    /\ UNCHANGED <<user_account, user_session, issued, refreshes, faulty, call, tables>>

\* SELECT 1 FROM user_account WHERE user_id = $1 AND password_hash = crypt($2, password_hash)
ChangePasswordCheck(r) ==
    /\ Quiet
    /\ r.pc = "cp_check"
    /\ \E checkOk \in Outcomes :
        LET row == user_account[r.user_id]
            rowCount == IF row.password_hash =
                             crypt(Get(r.input.current_password), row.password_hash)
                        THEN 1 ELSE 0
            answer(status, error) ==
                ChangePasswordResponse(r.sessionId, r.user_id, r.input, status, error)
        IN
        IF ~checkOk
        THEN /\ resp' = answer(500, "Internal server error")
             /\ reqs' = reqs \ {r}
        ELSE IF rowCount # 1
        THEN /\ resp' = answer(400, "Current password is incorrect")
             /\ reqs' = reqs \ {r}
        ELSE /\ resp' = NoResp
             /\ reqs' = (reqs \ {r}) \cup {[r EXCEPT !.pc = "cp_update"]}
    /\ UNCHANGED <<user_account, user_session, issued, refreshes, faulty, call, tables>>

\* UPDATE user_account SET password_hash = password_hash($1), password_must_change = FALSE
ChangePasswordUpdate(r) ==
    /\ Quiet
    /\ r.pc = "cp_update"
    /\ \E updateOk \in Outcomes :
        LET answer(status, error) ==
                ChangePasswordResponse(r.sessionId, r.user_id, r.input, status, error)
        IN
        IF ~updateOk
        THEN /\ resp' = answer(500, "Internal server error")
             /\ UNCHANGED user_account
        ELSE /\ ~Locked(r.user_id)
             /\ user_account' =
                  [user_account EXCEPT ![r.user_id] =
                     [@ EXCEPT !.password_hash = password_hash(Get(r.input.new_password)),
                               !.password_must_change = FALSE]]
             /\ resp' = answer(204, "")
    /\ reqs' = reqs \ {r}
    /\ UNCHANGED <<user_session, issued, refreshes, faulty, call, tables>>

\* ------------------------------------------------------- the environment

\* an administrator sets an account to inactive, in the store
ExternalDeactivate(u) ==
    /\ Quiet
    /\ user_account[u].status # "inactive"
    /\ ~Locked(u)
    /\ user_account' = [user_account EXCEPT ![u].status = "inactive"]
    /\ resp' = NoResp
    /\ UNCHANGED <<user_session, issued, reqs, refreshes, faulty, call, tables>>

Next ==
    \/ Deliver
    \/ CorsPreflight
    \/ GateReject
    \/ NotFound
    \/ Health
    \/ Resource
    \/ Logout
    \/ LoginStart
    \/ MeStart
    \/ ChangePasswordStart
    \/ \E r \in reqs : LoginUpdate(r)
    \/ \E r \in reqs : LoginCommit(r)
    \/ \E r \in reqs : Me(r)
    \/ \E r \in reqs : ChangePasswordFetch(r)
    \/ \E r \in reqs : ChangePasswordCheck(r)
    \/ \E r \in reqs : ChangePasswordUpdate(r)
    \/ \E s \in SessionIds : Refresh(s)
    \/ \E u \in Users : ExternalDeactivate(u)

Spec == Init /\ [][Next]_vars

SpecStoreUp == InitStoreUp /\ [][Next]_vars

\* the service with two accounts that can log in, the second of which holds
\* a session
StartedTwoAccounts ==
    /\ SeededTables
    /\ user_account =
          [u \in Users |->
              [user_id |-> u, username |-> Username(u),
               status |-> "active",
               password_hash |-> password_hash(InitialPassword),
               password_must_change |-> (u = 101),
               last_login_at |-> IF u = 102 THEN "s1" ELSE "never"]]
    /\ user_session = {[session_id |-> "s1", user_id |-> 102, last_seen_at |-> "created"]}
    /\ issued = 1
    /\ reqs = {}
    /\ refreshes = {}
    /\ resp = NoResp
    /\ call = NoCall

InitTwoAccounts == StartedTwoAccounts /\ faulty = TRUE

SpecTwoAccounts == InitTwoAccounts /\ [][Next]_vars

\* ------------------------------------------------------------ JS values
\*
\* A number is NaN, an infinity, or a finite value kept as its tenfold
\* (scaled), so that one decimal place is exact: 3.7 is scaled 37.

NaN == [kind |-> "nan", scaled |-> 0]
Infinity == [kind |-> "inf", scaled |-> 1]
NegInfinity == [kind |-> "inf", scaled |-> -1]
Finite(scaled) == [kind |-> "finite", scaled |-> scaled]
Whole(i) == Finite(10 * i)

\* the runs of digits that occur in the inputs, and their values
DigitsValue(t) ==
    CASE t = "0" -> 0 [] t = "1" -> 1 [] t = "2" -> 2 [] t = "3" -> 3
      [] t = "5" -> 5 [] t = "7" -> 7 [] t = "9" -> 9 [] t = "200" -> 200
      [] t = "999" -> 999 [] t = "1000" -> 1000 [] t = "1001" -> 1001
      [] OTHER -> -1

IsDigits(t) == DigitsValue(t) >= 0

\* StringToNumber: white space is trimmed, the empty string is 0, then an
\* optional sign and Infinity, digits, or digits "." one digit; anything
\* else is NaN
StringToNumber(text) ==
    LET s == Trim(text)
        negative == s # <<>> /\ Head(s) = "-"
        body == IF negative THEN Tail(s) ELSE s
        sign == IF negative THEN -1 ELSE 1
    IN  IF s = <<>> THEN Whole(0)
        ELSE IF body = <<"Infinity">>
        THEN (IF negative THEN NegInfinity ELSE Infinity)
        ELSE IF Len(body) = 1 /\ IsDigits(body[1])
        THEN Finite(sign * 10 * DigitsValue(body[1]))
        ELSE IF /\ Len(body) = 3 /\ IsDigits(body[1]) /\ body[2] = "."
                /\ IsDigits(body[3]) /\ DigitsValue(body[3]) < 10
        THEN Finite(sign * (10 * DigitsValue(body[1]) + DigitsValue(body[3])))
        ELSE NaN

JsUndefined == [type |-> "undefined"]
JsNull == [type |-> "null"]
JsBoolean(b) == [type |-> "boolean", b |-> b]
JsNumber(n) == [type |-> "number", n |-> n]
JsString(text) == [type |-> "string", s |-> text]

\* an optional text (a query or route parameter) as a JS value
JsOf(o) == IF IsDefined(o) THEN JsString(Get(o)) ELSE JsUndefined

\* Number(v)
Number(v) ==
    CASE v.type = "undefined" -> NaN
      [] v.type = "null" -> Whole(0)
      [] v.type = "boolean" -> (IF v.b THEN Whole(1) ELSE Whole(0))
      [] v.type = "number" -> v.n
      [] v.type = "string" -> StringToNumber(v.s)

isFinite(n) == n.kind = "finite"
isInteger(n) == n.kind = "finite" /\ n.scaled % 10 = 0

\* Math.trunc of a finite number
trunc(n) ==
    IF n.scaled >= 0 THEN Finite((n.scaled \div 10) * 10)
    ELSE Finite(-(((-n.scaled) \div 10) * 10))

\* a < b for numbers that are not NaN
LessThan(a, b) ==
    CASE a.kind = "inf" /\ b.kind = "inf" -> a.scaled < b.scaled
      [] a.kind = "inf" -> a.scaled < 0
      [] b.kind = "inf" -> b.scaled > 0
      [] OTHER -> a.scaled < b.scaled

\* Math.max, Math.min
max(a, b) == IF a.kind = "nan" \/ b.kind = "nan" THEN NaN
             ELSE IF LessThan(a, b) THEN b ELSE a
min(a, b) == IF a.kind = "nan" \/ b.kind = "nan" THEN NaN
             ELSE IF LessThan(b, a) THEN b ELSE a

\* n || fallback: NaN and 0 are falsy
OrElse(n, fallback) ==
    IF n.kind = "nan" \/ (n.kind = "finite" /\ n.scaled = 0) THEN fallback ELSE n

\* ------------------------------------------------------------ contracts.js

DefaultLimit == 200
MinLimit == 1
MaxLimit == 1000

\* router.get('/'): the LIMIT and OFFSET parameters sent to the store
ListWindow(query) ==
    [limit |-> min(max(OrElse(Number(JsOf(query.limit)), Whole(DefaultLimit)),
                       Whole(MinLimit)), Whole(MaxLimit)),
     offset |-> max(OrElse(Number(JsOf(query.offset)), Whole(0)), Whole(0))]

FIELDS ==
    <<"title", "counterparty_name", "counterparty_contact", "counterparty_email",
      "internal_owner", "department", "department_id", "contract_type", "status",
      "status_id", "signed_date", "effective_date", "start_date", "end_date",
      "auto_renew", "renewal_term_months", "termination_notice_days",
      "termination_notice_deadline", "notes", "file_name">>

FieldSet == {FIELDS[i] : i \in 1..Len(FIELDS)}

\* the keys coerceInteger is applied to
IntegerFields ==
    {"renewal_term_months", "termination_notice_days", "department_id", "status_id"}

\* String(n) for a finite number with at most one decimal place
NumberToString(n) ==
    LET magnitude == IF n.scaled < 0 THEN -n.scaled ELSE n.scaled
        digits(i) == CHOOSE t \in {"0", "1", "2", "3", "5", "7", "9", "200",
                                   "999", "1000", "1001"} : DigitsValue(t) = i
        whole == <<digits(magnitude \div 10)>>
        unsigned == IF magnitude % 10 = 0 THEN whole
                    ELSE whole \o <<".", digits(magnitude % 10)>>
    IN  IF n.scaled < 0 THEN <<"-">> \o unsigned ELSE unsigned

\* String(v) for a boolean, a number or a string
String(v) ==
    CASE v.type = "string" -> v.s
      [] v.type = "boolean" -> (IF v.b THEN <<"true">> ELSE <<"false">>)
      [] v.type = "number" ->
            (CASE v.n.kind = "nan" -> <<"NaN">>
               [] v.n.kind = "inf" ->
                    (IF v.n.scaled < 0 THEN <<"-", "Infinity">> ELSE <<"Infinity">>)
               [] OTHER -> NumberToString(v.n))

coerceBoolean(v) ==
    IF v.type \in {"null", "undefined"} \/ v = JsString(<<>>) THEN JsNull
    ELSE IF v.type = "boolean" THEN v
    ELSE LET s == ToLowerCase(Trim(String(v)))
         IN  IF s \in {<<"true">>, <<"1">>, <<"yes">>, <<"y">>, <<"on">>}
             THEN JsBoolean(TRUE)
             ELSE IF s \in {<<"false">>, <<"0">>, <<"no">>, <<"n">>, <<"off">>}
             THEN JsBoolean(FALSE)
             ELSE JsNull

\* coerceInteger without Math.trunc
coerceIntegerKeepingFraction(v) ==
    IF v.type \in {"null", "undefined"} \/ v = JsString(<<>>) THEN JsNull
    ELSE IF ~isFinite(Number(v)) THEN JsNull
    ELSE JsNumber(Number(v))

coerceInteger(v) ==
    IF v.type \in {"null", "undefined"} \/ v = JsString(<<>>) THEN JsNull
    ELSE LET n == Number(v)
         IN  IF ~isFinite(n) THEN JsNull ELSE JsNumber(trunc(n))

\* what both sanitizers do to the value of key k
coerceField(k, value) ==
    LET b == IF k = "auto_renew" THEN coerceBoolean(value) ELSE value
        i == IF k \in IntegerFields THEN coerceInteger(b) ELSE b
        t == IF i.type = "string" THEN JsString(Trim(i.s)) ELSE i
    IN  IF t = JsString(<<>>) THEN JsNull ELSE t

\* a payload is a function from the keys the request body carries to their
\* values
\* a sanitizer that copies every key of the body that is not undefined
sanitizeCreatePayloadAnyKey(payload) ==
    [k \in {f \in DOMAIN payload : payload[f] # JsUndefined}
        |-> coerceField(k, payload[k])]

sanitizeCreatePayload(payload) ==
    [k \in {f \in FieldSet : f \in DOMAIN payload /\ payload[f] # JsUndefined}
        |-> coerceField(k, payload[k])]

\* a sanitizer that copies every key of the body
sanitizePatchPayloadAnyKey(payload) ==
    [k \in DOMAIN payload |-> coerceField(k, payload[k])]

sanitizePatchPayload(payload) ==
    [k \in {f \in FieldSet : f \in DOMAIN payload} |-> coerceField(k, payload[k])]

\* ------------------------------------------- departments.js, statuses.js
\*
\* The routers are mounted behind the gate.  A request is taken on when the
\* gate forwards it (its session lookup is one statement); the handler then
\* reads req.params and req.body and sends its own statement.

MountPath(t) ==
    CASE t = "department" -> PathDepartments
      [] t = "status" -> PathStatuses
      [] t = "contract" -> PathContracts

RouterOf(t) ==
    CASE t = "department" -> "departments"
      [] t = "status" -> "statuses"
      [] t = "contract" -> "contracts"

\* the account 101 has logged in and changed its password: one session
StartedAccount ==
    /\ user_account =
          [u \in Users |->
              [user_id |-> u, username |-> Username(u),
               status |-> IF u = 101 THEN "active" ELSE "suspended",
               password_hash |->
                   password_hash(IF u = 101 THEN OtherPassword ELSE InitialPassword),
               password_must_change |-> (u # 101),
               last_login_at |-> IF u = 101 THEN "s1" ELSE "never"]]
    /\ user_session = {[session_id |-> "s1", user_id |-> 101, last_seen_at |-> "created"]}
    /\ issued = 1
    /\ reqs = {}
    /\ refreshes = {}
    /\ resp = NoResp
    /\ call = NoCall

\* the account 101 has a session, the lookup tables are seeded and there are
\* no contracts
StartedTables == StartedAccount /\ SeededTables

InitTables == StartedTables /\ faulty = TRUE

InitTablesStoreUp == StartedTables /\ faulty = FALSE

\* the gate forwards a request to one of the routers
TableStart(routes) ==
    /\ CanStart
    /\ \E route \in routes, extracted \in PresentedIds :
        LET method == route[1]
            t == route[2]
            g == Gate(MountPath(t), extracted, TRUE)
            r == [pc |-> "table", method |-> method, table |-> t,
                  sessionId |-> extracted, user |-> g.user]
        IN
        /\ g.decision = "next"
        /\ (t = "contract" /\ method = "POST") => serial[t] < MaxContracts
        /\ refreshes' = Spawned(g)
        /\ r \notin reqs
        /\ reqs' = reqs \cup {r}
        /\ resp' = Response("next", MountPath(t), NoInput, g.sessionId, g.user,
                            RouterOf(t), 0, "", g.cookie, NoBody)
    /\ UNCHANGED <<user_account, user_session, issued, faulty, call, tables>>

\* a text with a quote, a semicolon and a comment marker
Metacharacters == <<"'", ";", "drop", "--">>

\* a value spliced between quotes into the text of the statement: the
\* literal ends at the first quote of the value
Concatenated(text) ==
    IF \E i \in 1..Len(text) : text[i] = "'"
    THEN SubSeq(text, 1, (CHOOSE i \in 1..Len(text) :
                            /\ text[i] = "'"
                            /\ \A j \in 1..(i - 1) : text[j] # "'") - 1)
    ELSE text

\* a value sent as $n beside the text of the statement: the store takes it
\* as it is
Parameter(text) == text

\* req.body.name
NameInputs ==
    {Undefined, Some(<<" ">>), Some(<<" ", "Operations", " ">>),
     Some(<<" ", "fleet", " ">>), Some(Metacharacters)}

\* req.params.department_id, req.params.status_id
IdInputs == {<<"1">>, <<"2">>, <<"3">>, <<"9">>, <<"1", ".", "5">>}

\* String(req.body?.name || '')
TextOrEmpty(o) == IF IsDefined(o) THEN Get(o) ELSE <<>>

\* normalizeRow of departments.js and statuses.js
normalizeRow(row) == [id |-> row.id, name |-> row.name]

\* the unique index on the name of a lookup table, which ignores case: the
\* statement would leave a second row, other than row id, with this name
UniqueViolation(t, name, id) ==
    \E row \in lookup[t] :
        row.id # id /\ ToLowerCase(row.name) = ToLowerCase(name)

\* the rows WHERE department_id = $n (status_id = $n) selects
RowsWithId(t, id) == {row \in lookup[t] : Whole(row.id) = id}

ConflictMessage(t) ==
    IF t = "department" THEN "A department with that name already exists"
    ELSE "A status with that name already exists"

NotFoundMessage(t) ==
    IF t = "department" THEN "Department not found" ELSE "Status not found"

InvalidIdMessage(t) ==
    IF t = "department" THEN "Invalid department_id" ELSE "Invalid status_id"

LookupResponse(r, input, status, error, body) ==
    Response("handler", MountPath(r.table), input, r.sessionId, r.user,
             RouterOf(r.table), status, error, "untouched", body)

\* a create that assigns the id of the last row again
LookupCreateReusingId(r) ==
    /\ Quiet
    /\ r.pc = "table" /\ r.method = "POST" /\ r.table \in Tables
    /\ \E given \in NameInputs, ok \in Outcomes :
        LET t == r.table
            name == Trim(TextOrEmpty(given))
            input == [method |-> "POST", name |-> given]
            row == [id |-> serial[t], name |-> name]
        IN
        IF name = <<>>
        THEN /\ resp' = LookupResponse(r, input, 400, "name is required", NoBody)
             /\ UNCHANGED tables
        ELSE IF ~ok
        THEN /\ resp' = LookupResponse(r, input, 500, "Internal server error, <message>", NoBody)
             /\ UNCHANGED tables
        ELSE IF UniqueViolation(t, name, 0)
        THEN /\ resp' = LookupResponse(r, input, 409, ConflictMessage(t), NoBody)
             /\ UNCHANGED tables
        ELSE /\ serial[t] < MaxLookupId
             /\ serial' = [serial EXCEPT ![t] = @ + 1]
             /\ lookup' = [lookup EXCEPT ![t] = @ \cup {row}]
             /\ resp' = LookupResponse(r, input, 201, "", normalizeRow(row))
             /\ UNCHANGED contract
    /\ reqs' = reqs \ {r}
    /\ UNCHANGED <<user_account, user_session, issued, refreshes, faulty, call>>

\* router.post('/'): INSERT INTO department (name) VALUES ($1) RETURNING
LookupCreate(r) ==
    /\ Quiet
    /\ r.pc = "table" /\ r.method = "POST" /\ r.table \in Tables
    /\ \E given \in NameInputs, ok \in Outcomes :
        LET t == r.table
            name == Trim(TextOrEmpty(given))
            input == [method |-> "POST", name |-> given]
            row == [id |-> serial[t] + 1, name |-> Parameter(name)]
        IN
        IF name = <<>>
        THEN /\ resp' = LookupResponse(r, input, 400, "name is required", NoBody)
             /\ UNCHANGED tables
        ELSE IF ~ok
        THEN /\ resp' = LookupResponse(r, input, 500, "Internal server error, <message>", NoBody)
             /\ UNCHANGED tables
        ELSE IF UniqueViolation(t, name, 0)
        THEN /\ resp' = LookupResponse(r, input, 409, ConflictMessage(t), NoBody)
             /\ UNCHANGED tables
        ELSE /\ serial[t] < MaxLookupId
             /\ serial' = [serial EXCEPT ![t] = @ + 1]
             /\ lookup' = [lookup EXCEPT ![t] = @ \cup {row}]
             /\ resp' = LookupResponse(r, input, 201, "", normalizeRow(row))
             /\ UNCHANGED contract
    /\ reqs' = reqs \ {r}
    /\ UNCHANGED <<user_account, user_session, issued, refreshes, faulty, call>>

\* router.patch('/:id'): UPDATE department SET name = $1 WHERE department_id = $2
LookupPatch(r) ==
    /\ Quiet
    /\ r.pc = "table" /\ r.method = "PATCH" /\ r.table \in Tables
    /\ \E param \in IdInputs, given \in NameInputs, ok \in Outcomes :
        LET t == r.table
            id == Number(JsString(param))
            name == Trim(TextOrEmpty(given))
            input == [method |-> "PATCH", id |-> param, name |-> given]
            rows == RowsWithId(t, id)
            old == CHOOSE row \in rows : TRUE
            new == [old EXCEPT !.name = name]
        IN
        /\ resp' =
             IF ~isInteger(id)
             THEN LookupResponse(r, input, 400, InvalidIdMessage(t), NoBody)
             ELSE IF name = <<>>
             THEN LookupResponse(r, input, 400, "name is required", NoBody)
             ELSE IF ~ok
             THEN LookupResponse(r, input, 500, "Internal server error, <message>", NoBody)
             ELSE IF rows = {}
             THEN LookupResponse(r, input, 404, NotFoundMessage(t), NoBody)
             ELSE IF UniqueViolation(t, name, old.id)
             THEN LookupResponse(r, input, 409, ConflictMessage(t), NoBody)
             ELSE LookupResponse(r, input, 200, "", normalizeRow(new))
        /\ lookup' =
             IF isInteger(id) /\ name # <<>> /\ ok /\ rows # {}
                /\ ~UniqueViolation(t, name, old.id)
             THEN [lookup EXCEPT ![t] = (@ \ {old}) \cup {new}]
             ELSE lookup
    /\ reqs' = reqs \ {r}
    /\ UNCHANGED <<user_account, user_session, issued, refreshes, faulty, call,
                   contract, serial>>

\* router.delete('/:id'): DELETE FROM department WHERE department_id = $1
LookupDelete(r) ==
    /\ Quiet
    /\ r.pc = "table" /\ r.method = "DELETE" /\ r.table \in Tables
    /\ \E param \in IdInputs, ok \in Outcomes :
        LET t == r.table
            id == Number(JsString(param))
            input == [method |-> "DELETE", id |-> param]
            rows == RowsWithId(t, id)
        IN
        /\ resp' =
             IF ~isInteger(id)
             THEN LookupResponse(r, input, 400, InvalidIdMessage(t), NoBody)
             ELSE IF ~ok
             THEN LookupResponse(r, input, 500, "Internal server error, <message>", NoBody)
             ELSE IF rows = {}
             THEN LookupResponse(r, input, 404, NotFoundMessage(t), NoBody)
             ELSE LookupResponse(r, input, 204, "", NoBody)
        /\ lookup' =
             IF isInteger(id) /\ ok THEN [lookup EXCEPT ![t] = @ \ rows] ELSE lookup
    /\ reqs' = reqs \ {r}
    /\ UNCHANGED <<user_account, user_session, issued, refreshes, faulty, call,
                   contract, serial>>

LookupRoutes == {"POST", "PATCH", "DELETE"} \X Tables

NextLookup ==
    \/ Deliver
    \/ TableStart(LookupRoutes)
    \/ \E r \in reqs : LookupCreate(r)
    \/ \E r \in reqs : LookupPatch(r)
    \/ \E r \in reqs : LookupDelete(r)

\* the lookup tables, with a store that answers every statement
SpecLookupStoreUp == InitTablesStoreUp /\ [][NextLookup]_vars

\* ------------------------------------------------- calls of pure helpers

Pending == [kind |-> "pending", text |-> <<>>]

\* Cookie, X-Session-Id and Authorization headers a client can send
CookieInputs ==
    {Undefined, Some(<<>>), Some(<<"theme", "=", "dark">>),
     Some(<<"cm_session", "=", "s1">>),
     Some(<<"theme", "=", "dark", ";", " ", "cm_session", "=", "s1">>),
     Some(<<"cm_session", "=", "s1", ";", " ", "cm_session", "=", "s2">>),
     Some(<<"cm_session", "=", "s", "%3D", "1">>),
     Some(<<"cm_session", "=", "s", "=", "1">>),
     Some(<<"cm_session", "=">>), Some(<<"cm_session">>),
     Some(<<"cm_session", "=", "%">>),
     Some(<<"theme", "=", "%", ";", "cm_session", "=", "s1">>)}

SessionHeaderInputs ==
    {Undefined, Some(<<>>), Some(<<" ">>), Some(<<"s2">>), Some(<<" ", "s2", " ">>)}

AuthorizationInputs ==
    {Undefined, Some(<<"Bearer", " ", "s3">>), Some(<<"BEARER", " ", " ", "s3", " ">>),
     Some(<<"Bearer", " ">>), Some(<<"Bearer">>), Some(<<"Basic", " ", "s3">>)}

HeaderInputs ==
    [cookie : CookieInputs, xSessionId : SessionHeaderInputs,
     authorization : AuthorizationInputs]

\* request paths: the exempt paths, with trailing slashes, under a mount
\* prefix, after a doubled slash, and paths that only resemble them
PathInputs ==
    {<<>>, <<"/">>, PathLogin, PathLogout, PathMe, PathContracts,
     PathLogin \o <<"/">>, PathLogout \o <<"/", "/">>,
     <<"/", "api">> \o PathLogin, <<"/", "api">> \o PathLogout \o <<"/">>,
     <<"/", "v1", "/", "api">> \o PathLogout,
     <<"/", "api", "/">> \o PathLogin,
     <<"/", "xauth", "/", "login">>, PathLogin \o <<"/", "extra">>,
     <<"/", "api">> \o PathMe, <<"/", "login">>}

\* what a client can send as ?limit= and ?offset=
NumericInputs ==
    {Undefined, Some(<<>>), Some(<<"abc">>), Some(<<"Infinity">>),
     Some(<<"-", "Infinity">>), Some(<<"-", "5">>), Some(<<"-", "0", ".", "5">>),
     Some(<<"0">>), Some(<<"0", ".", "5">>), Some(<<"1">>), Some(<<"2", ".", "5">>),
     Some(<<" ", "7", " ">>), Some(<<"200">>), Some(<<"999">>), Some(<<"1000">>),
     Some(<<"1001">>)}

QueryInputs == [limit : NumericInputs, offset : NumericInputs]

\* a key the request body does not carry
Absent == [type |-> "absent"]

\* the body with the keys it carries
Payload(choice) ==
    [k \in {c \in DOMAIN choice : choice[c] # Absent} |-> choice[k]]

BooleanInputs ==
    {JsNull, JsBoolean(TRUE), JsBoolean(FALSE), JsNumber(Whole(1)),
     JsNumber(Whole(0)), JsNumber(Whole(2)), JsString(<<>>), JsString(<<" ">>),
     JsString(<<"true">>), JsString(<<"TRUE">>), JsString(<<" ", "Yes", " ">>),
     JsString(<<"1">>), JsString(<<"Y">>), JsString(<<"ON">>),
     JsString(<<"False">>), JsString(<<"0">>), JsString(<<"No", " ">>),
     JsString(<<"N">>), JsString(<<"OFF">>), JsString(<<"maybe">>),
     JsString(<<"yes", " ", "no">>)}

IntegerInputs ==
    {JsNull, JsString(<<>>), JsString(<<" ">>), JsString(<<"3">>),
     JsString(<<" ", "3", ".", "7">>), JsString(<<"-", "0", ".", "5">>),
     JsString(<<"abc">>), JsString(<<"Infinity">>), JsNumber(Whole(7)),
     JsNumber(Finite(37)), JsNumber(Finite(-25)), JsNumber(Infinity),
     JsBoolean(TRUE)}

\* request bodies: whitelisted keys and two keys outside the whitelist
PayloadInputs ==
    {Payload(choice) : choice \in
        [title : {Absent, JsNull, JsString(<<>>), JsString(<<" ", "Lease", " ">>)},
         notes : {Absent, JsString(<<" ">>), JsNumber(Whole(5))},
         auto_renew : {Absent} \cup BooleanInputs,
         renewal_term_months : {Absent} \cup IntegerInputs,
         department_id : {Absent, JsNull, JsString(<<"2">>)},
         contract_id : {Absent, JsNumber(Whole(9))},
         created_by : {Absent, JsNumber(Whole(102))}]}

\* the calls of helpers a behaviour can start with
PureCalls ==
    {[fn |-> "extractSessionId", args |-> headers, out |-> Pending] :
        headers \in HeaderInputs}
    \cup {[fn |-> "isAuthExemptPath", args |-> pathname, out |-> Pending] :
        pathname \in PathInputs}
    \cup {[fn |-> "ListWindow", args |-> query, out |-> Pending] :
        query \in QueryInputs}
    \cup {[fn |-> fn, args |-> payload, out |-> Pending] :
        fn \in {"sanitizeCreatePayload", "sanitizePatchPayload"},
        payload \in PayloadInputs}

\* no request is made: only helpers are called
InitPure ==
    /\ user_account = CHOOSE accounts \in InitialAccounts : TRUE
    /\ user_session = {}
    /\ issued = 0
    /\ reqs = {}
    /\ refreshes = {}
    /\ resp = NoResp
    /\ faulty = FALSE
    /\ SeededTables
    /\ call \in PureCalls

\* extractSessionId(req) is called
CallExtractSessionId ==
    /\ call.fn = "extractSessionId"
    /\ call.out = Pending
    /\ call' = [call EXCEPT !.out = extractSessionId(call.args)]
    /\ UNCHANGED <<user_account, user_session, issued, reqs, refreshes, resp, faulty, tables>>

\* what a helper returned
Returned(v) == [kind |-> "value", value |-> v]

\* isAuthExemptPath(req.path) is called
CallIsAuthExemptPath ==
    /\ call.fn = "isAuthExemptPath"
    /\ call.out = Pending
    /\ call' = [call EXCEPT !.out = Returned(isAuthExemptPath(call.args))]
    /\ UNCHANGED <<user_account, user_session, issued, reqs, refreshes, resp, faulty, tables>>

\* GET /contracts computes its LIMIT and OFFSET
CallListWindow ==
    /\ call.fn = "ListWindow"
    /\ call.out = Pending
    /\ call' = [call EXCEPT !.out = Returned(ListWindow(call.args))]
    /\ UNCHANGED <<user_account, user_session, issued, reqs, refreshes, resp, faulty, tables>>

\* sanitizeCreatePayload(req.body || {}) is called
CallSanitizeCreatePayload ==
    /\ call.fn = "sanitizeCreatePayload"
    /\ call.out = Pending
    /\ call' = [call EXCEPT !.out = Returned(sanitizeCreatePayload(call.args))]
    /\ UNCHANGED <<user_account, user_session, issued, reqs, refreshes, resp, faulty, tables>>

\* sanitizePatchPayload(req.body || {}) is called
CallSanitizePatchPayload ==
    /\ call.fn = "sanitizePatchPayload"
    /\ call.out = Pending
    /\ call' = [call EXCEPT !.out = Returned(sanitizePatchPayload(call.args))]
    /\ UNCHANGED <<user_account, user_session, issued, reqs, refreshes, resp, faulty, tables>>

NextPure ==
    \/ CallExtractSessionId
    \/ CallIsAuthExemptPath
    \/ CallListWindow
    \/ CallSanitizeCreatePayload
    \/ CallSanitizePatchPayload

SpecPure == InitPure /\ [][NextPure]_vars

\* ------------------------------------------------- contracts.js, create

NameKey(t) == IF t = "department" THEN "department" ELSE "status"
IdKey(t) == IF t = "department" THEN "department_id" ELSE "status_id"

\* data[k], undefined for a key the object does not carry
ValueOf(data, k) == IF k \in DOMAIN data THEN data[k] ELSE JsUndefined

\* data[k] = v
Assign(data, k, v) ==
    [x \in DOMAIN data \cup {k} |-> IF x = k THEN v ELSE data[x]]

\* v == null
IsNullish(v) == v.type \in {"null", "undefined"}

\* the truth value JS gives v
Truthy(v) ==
    CASE v.type = "string" -> v.s # <<>>
      [] v.type = "number" -> v.n.kind = "inf" \/ (v.n.kind = "finite" /\ v.n.scaled # 0)
      [] v.type = "boolean" -> v.b
      [] OTHER -> FALSE

\* a resolution that looks the name up whatever the id is
NeedsLookupOfAnyId(data, t) ==
    /\ ValueOf(data, NameKey(t)).type = "string"
    /\ Trim(ValueOf(data, NameKey(t)).s) # <<>>

\* resolved.department_id == null && typeof resolved.department === 'string'
\* && resolved.department.trim()
NeedsLookup(data, t) ==
    /\ IsNullish(ValueOf(data, IdKey(t)))
    /\ ValueOf(data, NameKey(t)).type = "string"
    /\ Trim(ValueOf(data, NameKey(t)).s) # <<>>

\* SELECT department_id FROM department WHERE lower(name) = lower($1) LIMIT 1:
\* the ids rows[0] can carry, none when no row matches
RowsZero(t, name) ==
    LET rows == {row \in lookup[t] : ToLowerCase(row.name) = ToLowerCase(name)}
    IN  IF rows = {} THEN {Undefined} ELSE {Some(row.id) : row \in rows}

\* if (rows[0]) resolved.department_id = rows[0].department_id
resolveIdFromName(data, t, found) ==
    IF IsDefined(found) THEN Assign(data, IdKey(t), JsNumber(Whole(Get(found))))
    ELSE data

\* The statements of a create, in order: the department lookup (1), the status
\* lookup (2), the INSERT (3).  The next one to send, from the given one on.
NextStatement(data, from) ==
    IF from <= 1 /\ NeedsLookup(data, "department") THEN 1
    ELSE IF from <= 2 /\ NeedsLookup(data, "status") THEN 2
    ELSE 3

\* req.user?.user_id || null
ActorId(user) == IF IsDefined(user) THEN JsNumber(Whole(Get(user).user_id)) ELSE JsNull

\* the audit fields of a create
WithAudit(data, actorId) ==
    IF IsNullish(actorId) THEN data
    ELSE LET created == IF IsNullish(ValueOf(data, "created_by"))
                        THEN Assign(data, "created_by", actorId) ELSE data
         IN  IF IsNullish(ValueOf(created, "updated_by"))
             THEN Assign(created, "updated_by", actorId) ELSE created

\* the ways the store answers the INSERT: it succeeds, or rejects it with an
\* error code
InsertOutcomes == IF faulty THEN {"ok", "23505", "22007", "other"} ELSE {"ok"}

\* a catch that maps every store error to 500
CreateFailureGeneric(code) ==
    [status |-> 500, error |-> "Internal server error, <message>"]

\* the catch of router.post('/')
CreateFailure(code) ==
    CASE code = "23505" -> [status |-> 409, error |-> "Conflict creating contract"]
      [] code = "22007" -> [status |-> 400, error |-> "Invalid date format in request"]
      [] OTHER -> [status |-> 500, error |-> "Internal server error, <message>"]

\* the body with audit fields of the other account added
Forged(payload) ==
    [k \in DOMAIN payload \cup {"created_by", "updated_by"} |->
        IF k \in DOMAIN payload THEN payload[k] ELSE JsNumber(Whole(102))]

\* req.body of POST /contracts, without audit fields
UnforgedInputs ==
    {Payload(choice) : choice \in
        [title : {Absent, JsNull, JsString(<<" ">>), JsString(<<" ", "Lease", " ">>),
                  JsString(Metacharacters)},
         department : {Absent, JsNumber(Whole(5)), JsString(<<" ">>),
                       JsString(<<" ", "Operations", " ">>), JsString(<<"nowhere">>)},
         department_id : {Absent, JsNull, JsString(<<"2">>)},
         status : {Absent, JsString(<<"ACTIVE">>)},
         status_id : {Absent, JsNumber(Whole(1))}]}

\* req.body of POST /contracts
CreateInputs == UnforgedInputs \cup {Forged(payload) : payload \in UnforgedInputs}

\* the values of the INSERT as the store takes them
Parameters(data) ==
    [k \in DOMAIN data |->
        IF data[k].type = "string" THEN JsString(Parameter(data[k].s)) ELSE data[k]]

\* the answer of the create handler, with the work it did (the sanitized
\* body, the body as resolved so far and the tables it has queried) and the
\* answer of the store to its last statement ("none": it sent none)
CreateResponse(r, work, store, status, error, body) ==
    [work |-> work, store |-> store] @@
    Response("handler", MountPath(r.table), work.input, r.sessionId, r.user,
             RouterOf(r.table), status, error, "untouched", body)

\* what a create has done so far: the body it was sent, the sanitized body,
\* the body as resolved and the tables it has queried
Work(payload, sanitized, data, queried) ==
    [input |-> payload, sanitized |-> sanitized, body |-> data, queried |-> queried]

\* if (!body.title) return res.status(400)
TitleRequired(r, work, store) ==
    /\ resp' = CreateResponse(r, work, store, 400, "title is required", NoBody)
    /\ reqs' = reqs \ {r}
    /\ UNCHANGED tables

\* a request that enters the handler: sanitizeCreatePayload(req.body || {})
Entered(r) ==
    {[pc |-> "create", method |-> r.method, table |-> r.table,
      sessionId |-> r.sessionId, user |-> r.user, statement |-> 1,
      work |-> Work(payload, sanitizeCreatePayload(payload),
                    sanitizeCreatePayload(payload), {})] : payload \in CreateInputs}

\* resolveIdsFromNames: the lookup of one name and the code up to the next
\* statement
ContractResolve(r, c, t) ==
    \E ok \in Outcomes, found \in RowsZero(t, Trim(c.work.body[NameKey(t)].s)) :
    \E resolved \in {resolveIdFromName(c.work.body, t, found)} :
    \E work \in {Work(c.work.input, c.work.sanitized, resolved,
                      c.work.queried \cup {t})} :
        IF ~ok
        THEN /\ resp' = CreateResponse(r, [work EXCEPT !.body = c.work.body], "other",
                              CreateFailure("other").status,
                              CreateFailure("other").error, NoBody)
             /\ reqs' = reqs \ {r}
             /\ UNCHANGED tables
        ELSE IF NextStatement(resolved, c.statement + 1) = 3
                /\ ~Truthy(ValueOf(resolved, "title"))
        THEN TitleRequired(r, work, "ok")
        ELSE /\ reqs' = (reqs \ {r}) \cup
                    {[c EXCEPT !.statement = NextStatement(resolved, c.statement + 1),
                               !.work = work]}
             /\ UNCHANGED <<resp, tables>>

\* INSERT INTO contract (...) VALUES (...) RETURNING *
ContractInsert(r, c) ==
    \E outcome \in InsertOutcomes :
    \E row \in {[contract_id |-> serial["contract"] + 1,
                  columns |-> Parameters(WithAudit(c.work.body, ActorId(r.user)))]} :
        /\ serial["contract"] < MaxContracts
        /\ reqs' = reqs \ {r}
        /\ IF outcome = "ok"
           THEN /\ contract' = contract \cup {row}
                /\ serial' = [serial EXCEPT !["contract"] = @ + 1]
                /\ resp' = CreateResponse(r, c.work, "ok", 201, "", row)
                /\ UNCHANGED lookup
           ELSE /\ resp' = CreateResponse(r, c.work, outcome,
                                 CreateFailure(outcome).status,
                                 CreateFailure(outcome).error, NoBody)
                /\ UNCHANGED tables

\* router.post('/'): one statement of the create and the code up to the next
ContractCreate(r) ==
    /\ Quiet
    /\ r.pc \in {"table", "create"} /\ r.method = "POST" /\ r.table = "contract"
    /\ \E c \in (IF r.pc = "table" THEN Entered(r) ELSE {r}) :
       \E statement \in {NextStatement(c.work.body, c.statement)} :
          IF statement = 1 THEN ContractResolve(r, [c EXCEPT !.statement = 1], "department")
          ELSE IF statement = 2 THEN ContractResolve(r, [c EXCEPT !.statement = 2], "status")
          ELSE IF ~Truthy(ValueOf(c.work.body, "title")) THEN TitleRequired(r, c.work, "none")
          ELSE ContractInsert(r, c)
    /\ UNCHANGED <<user_account, user_session, issued, refreshes, faulty, call>>

ContractRoutes == {<<"POST", "contract">>} \cup ({"DELETE"} \X Tables)

NextContracts ==
    \/ Deliver
    \/ TableStart(ContractRoutes)
    \/ \E r \in reqs : ContractCreate(r)
    \/ \E r \in reqs : LookupDelete(r)

\* the contract create, with store statements that may fail
SpecContracts == InitTables /\ [][NextContracts]_vars

\* the contract create, with a store that answers every statement
SpecContractsStoreUp == InitTablesStoreUp /\ [][NextContracts]_vars

\* ------------------------------------------------ contracts.js, by id
\*
\* GET, PATCH and DELETE /contracts/:contract_id behind the gate.  A row of
\* contract is [contract_id, columns]; updated_at is "now" once an UPDATE of
\* the handler has refreshed it.

\* req.params.contract_id
ContractIdInputs == {<<"1">>, <<"2">>, <<"1", ".", "5">>, <<"x">>, <<" ">>}

\* req.body of PATCH /contracts/:contract_id
PatchInputs ==
    {Payload(choice) : choice \in
        [title : {Absent, JsString(<<" ">>), JsString(<<" ", "Renewed", " ">>)},
         department : {Absent, JsString(<<" ", "Operations", " ">>)},
         notes : {Absent, JsString(Metacharacters)},
         updated_by : {Absent, JsNumber(Whole(102))},
         contract_id : {Absent, JsNumber(Whole(2))}]}

\* a contract stored before the first request, by the other account
SeededContract ==
    [contract_id |-> 1,
     columns |-> [k \in {"title", "created_by", "updated_by", "updated_at"} |->
                     CASE k = "title" -> JsString(<<"Lease">>)
                       [] k = "updated_at" -> JsString(<<"earlier">>)
                       [] OTHER -> JsNumber(Whole(102))]]

\* the account 101 has a session; the contract table is empty or holds the
\* seeded contract
StartedContractRows ==
    /\ StartedAccount
    /\ lookup = SeedLookup
    /\ \/ contract = {} /\ serial = SeedSerial
       \/ /\ contract = {SeededContract}
          /\ serial = [SeedSerial EXCEPT !["contract"] = 1]

InitContractRows == StartedContractRows /\ faulty = TRUE

InitContractRowsStoreUp == StartedContractRows /\ faulty = FALSE

\* Object.entries(body): the keys in insertion order, those of the sanitized
\* body first (in the order of FIELDS), then the ids resolveIdsFromNames added
Entries(sanitized, data) ==
    SelectSeq(FIELDS, LAMBDA k : k \in DOMAIN sanitized)
        \o SelectSeq(FIELDS, LAMBDA k : k \in DOMAIN data \ DOMAIN sanitized)

\* a statement that binds the actor where the id belongs
PatchStatementShifted(keys, data, id, actorId) ==
    [set |-> [i \in 1..Len(keys) |-> [column |-> keys[i], param |-> i]],
     updated_by |-> IF IsNullish(actorId) THEN Undefined ELSE Some(Len(keys) + 1),
     values |-> [i \in 1..Len(keys) |-> data[keys[i]]] \o <<JsNumber(id)>>
                \o (IF IsNullish(actorId) THEN <<>> ELSE <<actorId>>),
     where |-> IF IsNullish(actorId) THEN Len(keys) + 1 ELSE Len(keys) + 2]

\* the UPDATE the patch handler generates: the SET clauses with the
\* placeholder of each, the placeholder of updated_by when there is an actor,
\* the values in the order they were pushed and the placeholder of the WHERE
\* clause
PatchStatement(keys, data, id, actorId) ==
    [set |-> [i \in 1..Len(keys) |-> [column |-> keys[i], param |-> i]],
     updated_by |-> IF IsNullish(actorId) THEN Undefined ELSE Some(Len(keys) + 2),
     values |-> [i \in 1..Len(keys) |-> data[keys[i]]] \o <<JsNumber(id)>>
                \o (IF IsNullish(actorId) THEN <<>> ELSE <<actorId>>),
     where |-> IF IsNullish(actorId)
               THEN Len(keys) + 1
               ELSE (Len(keys) + 2) - 1]

\* the rows WHERE contract_id = $n selects
ContractsWithId(id) == {row \in contract : JsNumber(Whole(row.contract_id)) = id}

\* the columns of a row after the SET clauses of the statement: each column
\* takes the value bound to its placeholder, updated_at takes NOW()
SetColumns(columns, statement) ==
    LET named == {statement.set[i].column : i \in DOMAIN statement.set}
        param(k) == statement.set[CHOOSE i \in DOMAIN statement.set :
                                      statement.set[i].column = k].param
        audit == IF IsDefined(statement.updated_by) THEN {"updated_by"} ELSE {}
    IN  [k \in DOMAIN columns \cup named \cup audit \cup {"updated_at"} |->
            IF k \in named THEN statement.values[param(k)]
            ELSE IF k = "updated_at" THEN JsString(<<"now">>)
            ELSE IF k \in audit THEN statement.values[Get(statement.updated_by)]
            ELSE columns[k]]

\* the table after the UPDATE
Updated(statement) ==
    {IF row \in ContractsWithId(statement.values[statement.where])
     THEN [row EXCEPT !.columns = SetColumns(@, statement)]
     ELSE row : row \in contract}

\* the ways the store answers the UPDATE
UpdateOutcomes == IF faulty THEN {"ok", "22007", "other"} ELSE {"ok"}

\* the catch of router.patch('/:contract_id')
PatchFailure(code) ==
    CASE code = "22007" -> [status |-> 400, error |-> "Invalid date format in request"]
      [] OTHER -> [status |-> 500, error |-> "Internal server error, <message>"]

\* the answer of a handler that takes the id from the path, with the id, the
\* work it did, the statements it sent and the answer of the store to the
\* last of them ("none": it sent none)
ByIdResponse(r, param, work, sent, store, status, error, body) ==
    [method |-> r.method, param |-> param, work |-> work, sent |-> sent,
     store |-> store] @@
    Response("handler", MountPath(r.table), work.input, r.sessionId, r.user,
             RouterOf(r.table), status, error, "untouched", body)

NoWork == Work(NoInput, NoInput, NoInput, {})

\* if (!Number.isInteger(id)) return res.status(400)
InvalidContractId(r, param) ==
    /\ resp' = ByIdResponse(r, param, NoWork, 0, "none", 400, "Invalid contract_id",
                            NoBody)
    /\ reqs' = reqs \ {r}
    /\ UNCHANGED tables

\* a request that enters the patch handler with a well-formed id:
\* sanitizePatchPayload(req.body || {})
EnteredPatch(r, param) ==
    {[pc |-> "patch", method |-> r.method, table |-> r.table,
      sessionId |-> r.sessionId, user |-> r.user, statement |-> 1, param |-> param,
      work |-> Work(payload, sanitizePatchPayload(payload),
                    sanitizePatchPayload(payload), {})] : payload \in PatchInputs}

\* if (entries.length === 0) return res.status(400)
NoFields(r, c, store) ==
    /\ resp' = ByIdResponse(r, c.param, c.work, Cardinality(c.work.queried), store,
                            400, "No fields provided for update", NoBody)
    /\ reqs' = reqs \ {r}
    /\ UNCHANGED tables

\* resolveIdsFromNames in the patch handler: the lookup of one name and the
\* code up to the next statement
PatchResolve(r, c, t) ==
    \E ok \in Outcomes, found \in RowsZero(t, Trim(c.work.body[NameKey(t)].s)) :
    \E resolved \in {resolveIdFromName(c.work.body, t, found)} :
    \E work \in {Work(c.work.input, c.work.sanitized, resolved,
                      c.work.queried \cup {t})} :
        IF ~ok
        THEN /\ resp' = ByIdResponse(r, c.param, [work EXCEPT !.body = c.work.body],
                              Cardinality(work.queried), "other",
                              PatchFailure("other").status,
                              PatchFailure("other").error, NoBody)
             /\ reqs' = reqs \ {r}
             /\ UNCHANGED tables
        ELSE /\ reqs' = (reqs \ {r}) \cup
                    {[c EXCEPT !.statement = NextStatement(resolved, c.statement + 1),
                               !.work = work]}
             /\ UNCHANGED <<resp, tables>>

\* UPDATE contract SET ... WHERE contract_id = $n RETURNING *
PatchUpdate(r, c) ==
    \E outcome \in UpdateOutcomes :
    \E statement \in {PatchStatement(Entries(c.work.sanitized, c.work.body),
                                     c.work.body, Number(JsString(c.param)),
                                     ActorId(r.user))} :
    \E rows \in {ContractsWithId(statement.values[statement.where])} :
        /\ reqs' = reqs \ {r}
        /\ IF outcome # "ok"
           THEN /\ resp' = ByIdResponse(r, c.param, c.work,
                                 Cardinality(c.work.queried) + 1, outcome,
                                 PatchFailure(outcome).status,
                                 PatchFailure(outcome).error, NoBody)
                /\ UNCHANGED tables
           ELSE /\ contract' = Updated(statement)
                /\ UNCHANGED <<lookup, serial>>
                /\ resp' =
                     IF rows = {}
                     THEN ByIdResponse(r, c.param, c.work,
                              Cardinality(c.work.queried) + 1, "ok", 404,
                              "Contract not found", NoBody)
                     ELSE ByIdResponse(r, c.param, c.work,
                              Cardinality(c.work.queried) + 1, "ok", 200, "",
                              CHOOSE row \in Updated(statement) :
                                  row.contract_id \in {x.contract_id : x \in rows})

\* the next statement of a patch that is past the check of its id
PatchStep(r, c) ==
    \E statement \in {NextStatement(c.work.body, c.statement)} :
        IF statement = 1 THEN PatchResolve(r, [c EXCEPT !.statement = 1], "department")
        ELSE IF statement = 2 THEN PatchResolve(r, [c EXCEPT !.statement = 2], "status")
        ELSE IF Entries(c.work.sanitized, c.work.body) = <<>>
        THEN NoFields(r, c, IF c.work.queried = {} THEN "none" ELSE "ok")
        ELSE PatchUpdate(r, c)

\* router.patch('/:contract_id'): one statement of the patch and the code up
\* to the next
ContractPatch(r) ==
    /\ Quiet
    /\ r.pc \in {"table", "patch"} /\ r.method = "PATCH" /\ r.table = "contract"
    /\ IF r.pc = "table"
       THEN \E param \in ContractIdInputs :
              IF ~isInteger(Number(JsString(param)))
              THEN InvalidContractId(r, param)
              ELSE \E c \in EnteredPatch(r, param) : PatchStep(r, c)
       ELSE PatchStep(r, r)
    /\ UNCHANGED <<user_account, user_session, issued, refreshes, faulty, call>>

\* router.get('/:contract_id')
ContractGet(r) ==
    /\ Quiet
    /\ r.pc = "table" /\ r.method = "GET" /\ r.table = "contract"
    /\ \E param \in ContractIdInputs, ok \in Outcomes :
       \E rows \in {ContractsWithId(JsNumber(Number(JsString(param))))} :
          IF ~isInteger(Number(JsString(param)))
          THEN InvalidContractId(r, param)
          ELSE /\ reqs' = reqs \ {r}
               /\ UNCHANGED tables
               /\ resp' =
                    IF ~ok
                    THEN ByIdResponse(r, param, NoWork, 1, "other", 500,
                             "Internal server error, <message>", NoBody)
                    ELSE IF rows = {}
                    THEN ByIdResponse(r, param, NoWork, 1, "ok", 404,
                             "Contract not found", NoBody)
                    ELSE ByIdResponse(r, param, NoWork, 1, "ok", 200, "",
                             CHOOSE row \in rows : TRUE)
    /\ UNCHANGED <<user_account, user_session, issued, refreshes, faulty, call>>

\* router.delete('/:contract_id')
ContractDelete(r) ==
    /\ Quiet
    /\ r.pc = "table" /\ r.method = "DELETE" /\ r.table = "contract"
    /\ \E param \in ContractIdInputs, ok \in Outcomes :
       \E rows \in {ContractsWithId(JsNumber(Number(JsString(param))))} :
          IF ~isInteger(Number(JsString(param)))
          THEN InvalidContractId(r, param)
          ELSE /\ reqs' = reqs \ {r}
               /\ contract' = IF ok THEN contract \ rows ELSE contract
               /\ UNCHANGED <<lookup, serial>>
               /\ resp' =
                    IF ~ok
                    THEN ByIdResponse(r, param, NoWork, 1, "other", 500,
                             "Internal server error, <message>", NoBody)
                    ELSE IF rows = {}
                    THEN ByIdResponse(r, param, NoWork, 1, "ok", 404,
                             "Contract not found", NoBody)
                    ELSE ByIdResponse(r, param, NoWork, 1, "ok", 204, "", NoBody)
    /\ UNCHANGED <<user_account, user_session, issued, refreshes, faulty, call>>

CreateRoutes == {"POST"} \X {"department", "contract"}

NextCreates ==
    \/ Deliver
    \/ TableStart(CreateRoutes)
    \/ \E r \in reqs : LookupCreate(r)
    \/ \E r \in reqs : ContractCreate(r)

\* department creates beside contract creates, with a store that answers
\* every statement
SpecCreatesStoreUp == InitTablesStoreUp /\ [][NextCreates]_vars

ContractRowRoutes == {"POST", "GET", "PATCH", "DELETE"} \X {"contract"}

NextContractRows ==
    \/ Deliver
    \/ TableStart(ContractRowRoutes)
    \/ \E r \in reqs : ContractCreate(r)
    \/ \E r \in reqs : ContractGet(r)
    \/ \E r \in reqs : ContractPatch(r)
    \/ \E r \in reqs : ContractDelete(r)

\* the contract routes, with store statements that may fail
SpecContractRows == InitContractRows /\ [][NextContractRows]_vars

\* the contract routes, with a store that answers every statement
SpecContractRowsStoreUp == InitContractRowsStoreUp /\ [][NextContractRows]_vars

\* ------------------------------------------------------------ properties

\* the session row a presented session id names, if the store holds one
RowsOf(id) ==
    {r \in user_session : id.kind = "string" /\ id.text = <<r.session_id>>}

InStore(id) == RowsOf(id) # {}

\* the account that owns the session a presented id names
OwnerOf(id) == user_account[(CHOOSE r \in RowsOf(id) : TRUE).user_id]

\* resp is what the server sent in the step in which the gate decided about a
\* request: the gate's own answer, or the answer of the router or handler
\* the gate let the request through to
GateDecided ==
    /\ resp # NoResp
    /\ \/ resp.by \in {"gate", "next", "router"}
       \/ resp.by = "handler"
          /\ resp.handler \in {"health", "contracts", "departments", "statuses"}

\* C1: for every request that is not OPTIONS and whose path is not exempt, if
\* no session id can be extracted or the extracted id names no session row
\* of the store, the gate answers 401 'Not authenticated', clears the session
\* cookie, and no route handler runs.
GateRejectsUnauthenticated ==
    (GateDecided /\ ~isAuthExemptPath(resp.path) /\ ~InStore(resp.sessionId))
        => /\ resp.by = "gate"
           /\ resp.status = 401
           /\ resp.error = "Not authenticated"
           /\ resp.cookie = "cleared"
           /\ resp.handler = "none"

\* C2: every request with a session of the store whose account has
\* password_must_change = true, on a path other than /auth/change-password,
\* /auth/logout, /auth/me and /health, is answered 403 'Password change
\* required' by the gate, and no handler runs for it.
MustChangeIsEnforced ==
    (/\ GateDecided
     /\ ~isAuthExemptPath(resp.path)
     /\ InStore(resp.sessionId)
     /\ OwnerOf(resp.sessionId).password_must_change
     /\ resp.path \notin {<<"/", "auth", "/", "change-password">>,
                          <<"/", "auth", "/", "logout">>,
                          <<"/", "auth", "/", "me">>, <<"/", "health">>})
        => /\ resp.by = "gate"
           /\ resp.status = 403
           /\ resp.error = "Password change required"
           /\ resp.handler = "none"

\* a request is answered 403 on a session that the gate has seen before (its
\* last_seen_at has been refreshed)
MustChangeEnforcedAgain ==
    /\ GateDecided
    /\ resp.by = "gate"
    /\ resp.status = 403
    /\ resp.path = <<"/", "contracts">>
    /\ \E r \in RowsOf(resp.sessionId) : r.last_seen_at = "refreshed"

\* C3: a request to a gated path with a session of the store whose account
\* has password_must_change = false is never rejected by the gate with 401
\* or 403: it is forwarded with the resolved account attached.
ValidSessionIsForwarded ==
    (/\ GateDecided
     /\ ~isAuthExemptPath(resp.path)
     /\ InStore(resp.sessionId)
     /\ ~OwnerOf(resp.sessionId).password_must_change)
        => /\ resp.by # "gate"
           /\ resp.status \notin {401, 403}
           /\ IsDefined(resp.user)
           /\ Get(resp.user).user_id = OwnerOf(resp.sessionId).user_id
           /\ ~Get(resp.user).password_must_change

\* the first session of account 101, which was created while the account had
\* to change its password, reaches the contracts handler after the change
ForwardedAfterPasswordChange ==
    /\ GateDecided
    /\ resp.by = "handler"
    /\ resp.handler = "contracts"
    /\ resp.sessionId.text = <<"s1">>
    /\ Get(resp.user).user_id = 101
    /\ ~Get(resp.user).password_must_change

IsLoginAnswer == resp # NoResp /\ resp.by = "handler" /\ resp.handler = "login"

\* the accounts whose username is trim(lowercase(u)) and whose hash matches p
MatchingAccounts(input) ==
    {u \in Users :
        /\ user_account[u].username = Trim(ToLowerCase(Get(input.username)))
        /\ user_account[u].password_hash = password_hash(Get(input.password))}

InputMissing(input) ==
    \/ ~IsDefined(input.username) \/ Get(input.username) = <<>>
    \/ ~IsDefined(input.password) \/ Get(input.password) = ""

\* C4: POST /auth/login answers 400 when the username or the password is
\* missing or empty; otherwise 401 when no account has the normalized
\* username with a hash matching the password, 403 'User account is
\* inactive' when the matching account is inactive, 403 'User status does not
\* permit login' when its status is outside {pending, active, inactive}, and
\* 200 with a session id only for a matching pending or active account; a
\* login passes the credential check only for such an account.
LoginResultTable ==
    /\ IsLoginAnswer =>
        IF InputMissing(resp.input) THEN resp.status = 400
        ELSE IF resp.status = 200
        THEN /\ resp.body.username = Trim(ToLowerCase(Get(resp.input.username)))
             /\ resp.body.status \in {"pending", "active"}
             /\ resp.body.session_id \in SessionIds
             /\ resp.cookie = resp.body.session_id
        ELSE LET matching == MatchingAccounts(resp.input) IN
             \/ /\ matching = {}
                /\ resp.status = 401
                /\ resp.error = "Invalid username or password"
             \/ \E u \in matching :
                    /\ user_account[u].status = "inactive"
                    /\ resp.status = 403
                    /\ resp.error = "User account is inactive"
             \/ \E u \in matching :
                    /\ user_account[u].status \notin {"pending", "active", "inactive"}
                    /\ resp.status = 403
                    /\ resp.error = "User status does not permit login"
    /\ \A r \in reqs :
        r.pc \in {"login_update", "login_commit"} =>
            /\ ~InputMissing(r.input)
            /\ r.user.username = Trim(ToLowerCase(Get(r.input.username)))
            /\ r.user.password_hash = password_hash(Get(r.input.password))
            /\ r.user.status \in {"pending", "active"}

\* a login with a username in upper case and padded with blanks succeeds for
\* an account that must change its password
LoginSucceedsWithMustChange ==
    /\ IsLoginAnswer
    /\ resp.status = 200
    /\ resp.input.username = Some(<<" ", "A", " ">>)
    /\ resp.body.password_must_change

\* the ids of the session rows of the store
StoredIds == {r.session_id : r \in user_session}

\* C5: login is all-or-nothing.  In every step, an account's last_login_at
\* changes, or its status goes from pending to active, or a session row of
\* the account appears, only all together, in the step in which a login
\* answers 200 with that session; and the step in which a login answers 400,
\* 401, 403 or 500 changes neither table, so that a login that fails at any
\* statement, COMMIT included, leaves both tables as they were.
LoginIsAtomic ==
    [][
        /\ \A u \in Users :
            LET before == user_account[u]
                after  == user_account'[u]
                addedIds == StoredIds' \ StoredIds
                addedFor == {r \in user_session' :
                                r.session_id \in addedIds /\ r.user_id = u}
            IN  (\/ after.last_login_at # before.last_login_at
                 \/ (before.status = "pending" /\ after.status = "active")
                 \/ addedFor # {})
                => \E s \in SessionIds :
                    /\ addedIds = {s}
                    /\ Cardinality(addedFor) = 1
                    /\ after.last_login_at = s
                    /\ before.status = "pending" => after.status = "active"
                    /\ IsLoginAnswer'
                    /\ resp'.status = 200
                    /\ resp'.body.session_id = s
                    /\ resp'.body.user_id = u
        /\ (IsLoginAnswer' /\ resp'.status \in {400, 401, 403, 500})
            => /\ user_account' = user_account
               /\ user_session' = user_session
    ]_vars

\* a second login has failed after its session id was generated: the tables
\* hold what the first login committed, and nothing of the second
FailedLoginLeavesNoTrace ==
    /\ IsLoginAnswer
    /\ resp.status = 500
    /\ resp.pool.connected = 1
    /\ issued = 2
    /\ StoredIds = {"s1"}
    /\ user_account[101].last_login_at = "s1"

\* C6: POST /auth/logout never fails: for any request it answers 204, clears
\* the session cookie, and afterwards the presented session id is absent
\* from the store.
LogoutNeverFails ==
    (resp # NoResp /\ resp.by = "handler" /\ resp.handler = "logout")
        => /\ resp.status = 204
           /\ resp.cookie = "cleared"
           /\ ~InStore(resp.sessionId)

\* session id s has been generated, is in no login still in flight, and is
\* not in the store: its login failed, or it has been deleted
Gone(s) ==
    /\ \E i \in 1..issued : SidName[i] = s
    /\ s \notin StoredIds
    /\ ~\E r \in reqs : r.pc \in {"login_update", "login_commit"} /\ r.sessionId = s

\* what C7 says of the answer in resp
AuthenticatesWhileStored ==
    /\ (GateDecided /\ ~isAuthExemptPath(resp.path) /\ resp.sessionId.kind = "string")
        => /\ InStore(resp.sessionId) <=> IsDefined(resp.user)
           /\ InStore(resp.sessionId) <=> ~(resp.by = "gate" /\ resp.status = 401)
    /\ (resp # NoResp /\ resp.by = "handler" /\ resp.handler = "me")
        => IF InStore(resp.sessionId)
           THEN /\ resp.status = 200
                /\ resp.body.user_id = OwnerOf(resp.sessionId).user_id
           ELSE resp.status = 401
    /\ (resp # NoResp /\ resp.by = "handler" /\ resp.handler = "logout"
            /\ resp.status = 204)
        => ~InStore(resp.sessionId)

\* C7: a session id authenticates a request exactly while it is in the
\* store, where only a login answering 200 puts it, once: the gate attaches
\* an account to a request presenting s if and only if s is in the store and
\* answers 401 otherwise, GET /auth/me returns the owning account if s is in
\* the store and 401 otherwise, s is absent once a logout presenting it has
\* answered, and a session id that has left the store never comes back.
SessionLifetime ==
    [][
        /\ AuthenticatesWhileStored'
        /\ \A s \in SessionIds :
            /\ (s \in StoredIds' /\ s \notin StoredIds)
                => /\ IsLoginAnswer'
                   /\ resp'.status = 200
                   /\ resp'.body.session_id = s
                   /\ ~Gone(s)
            /\ Gone(s) => Gone(s)'
    ]_vars

\* a request presents the first session after it was logged out, and the
\* gate answers 401
DeletedSessionIsRejected ==
    /\ GateDecided
    /\ resp.by = "gate"
    /\ resp.status = 401
    /\ resp.sessionId.text = <<"s1">>
    /\ Gone("s1")

\* C9: the gate never forwards a request with an attached identity whose
\* stored account status is inactive.
InactiveNeverForwarded ==
    (GateDecided /\ resp.by # "gate" /\ IsDefined(resp.user))
        => user_account[Get(resp.user).user_id].status # "inactive"

\* C10: the only status change the system performs is pending to active, in
\* the step in which a login of that account answers 200; that step leaves a
\* pending account active and an active account active; every other status
\* change is the administrator's.
OnlyLoginPromotes ==
    [][
        \/ \E u \in Users : ExternalDeactivate(u)
        \/ \A u \in Users :
            LET before == user_account[u].status
                after  == user_account'[u].status
                loggedIn == /\ IsLoginAnswer'
                            /\ resp'.status = 200
                            /\ resp'.body.user_id = u
            IN  /\ after # before
                    => (before = "pending" /\ after = "active" /\ loggedIn)
                /\ (loggedIn /\ before = "pending") => after = "active"
                /\ (loggedIn /\ before = "active") => after = "active"
    ]_vars

\* a login of a pending account has answered 200 and the account is active
PendingPromotedByLogin ==
    /\ IsLoginAnswer
    /\ resp.status = 200
    /\ resp.body.status = "pending"
    /\ user_account[resp.body.user_id].status = "active"

\* the cookies of the Cookie header, and the name and the value of one
CookiesOf(headers) ==
    IF IsDefined(headers.cookie) /\ Get(headers.cookie) # <<>>
    THEN Split(Get(headers.cookie), ";")
    ELSE <<>>

EqualsAt(cookie) == {i \in 1..Len(cookie) : cookie[i] = "="}

FirstEquals(cookie) ==
    CHOOSE i \in EqualsAt(cookie) : \A j \in EqualsAt(cookie) : i <= j

CookieName(cookie) ==
    LET c == Trim(cookie)
    IN  IF EqualsAt(c) = {} THEN c ELSE SubSeq(c, 1, FirstEquals(c) - 1)

CookieValue(cookie) ==
    LET c == Trim(cookie)
        raw == IF EqualsAt(c) = {} THEN <<>>
               ELSE SubSeq(c, FirstEquals(c) + 1, Len(c))
    IN  [i \in 1..Len(raw) |-> DecodeToken(raw[i])]

SessionCookies(headers) ==
    {i \in 1..Len(CookiesOf(headers)) :
        CookieName(CookiesOf(headers)[i]) = <<"cm_session">>}

BearerToken(headers) ==
    LET auth == headers.authorization
    IN  IF /\ IsDefined(auth)
           /\ Len(Get(auth)) >= 2
           /\ LowerToken(Get(auth)[1]) = "bearer"
           /\ Get(auth)[2] = " "
        THEN Trim(SubSeq(Get(auth), 3, Len(Get(auth))))
        ELSE <<>>

\* C8: extractSessionId returns the value of the session cookie when that
\* cookie is present; otherwise the trimmed X-Session-Id header when that is
\* not empty; otherwise the token of an Authorization: Bearer header when
\* that is not empty; otherwise none.
SessionIdSourceOrder ==
    (call.fn = "extractSessionId" /\ call.out # Pending) =>
        LET headers == call.args
            cookies == SessionCookies(headers)
            first == CHOOSE i \in cookies : \A j \in cookies : i <= j
        IN  IF cookies # {}
            THEN call.out = [kind |-> "string",
                             text |-> CookieValue(CookiesOf(headers)[first])]
            ELSE IF IsDefined(headers.xSessionId)
                    /\ Trim(Get(headers.xSessionId)) # <<>>
            THEN call.out = [kind |-> "string", text |-> Trim(Get(headers.xSessionId))]
            ELSE IF BearerToken(headers) # <<>>
            THEN call.out = [kind |-> "string", text |-> BearerToken(headers)]
            ELSE call.out = NullId

\* C11: a path is exempt exactly when, after its trailing slashes are
\* removed, it is /auth/login or /auth/logout, or ends with one of them as
\* whole trailing path segments under a mount prefix (/api/auth/login).
ExemptByTrailingSegments ==
    (call.fn = "isAuthExemptPath" /\ call.out # Pending) =>
        LET normalized == StripTrailingSlashes(call.args)
        IN  call.out.value =
                \E exempt \in {<<"/", "auth", "/", "login">>,
                                <<"/", "auth", "/", "logout">>} :
                    /\ Len(normalized) >= Len(exempt)
                    /\ SubSeq(normalized, Len(normalized) - Len(exempt) + 1,
                              Len(normalized)) = exempt

\* a step of a login: it answers, or it moves the login on to its next
\* statement
IsLoginStep ==
    \/ IsLoginAnswer'
    \/ \E r \in reqs' \ reqs : r.pc \in {"login_update", "login_commit"}

\* C12: every login that answers 200 inserts exactly one session row, whose
\* id is the session_id of the response body and the value of the session
\* cookie and which references the authenticated account; no other
\* operation inserts session rows; a login never deletes or replaces a
\* session, so an account can hold several sessions at the same time.
OneSessionPerLogin ==
    [][
        /\ (IsLoginAnswer' /\ resp'.status = 200)
            => \E row \in user_session' :
                /\ row.session_id \notin StoredIds
                /\ user_session' = user_session \cup {row}
                /\ Cardinality(user_session') = Cardinality(user_session) + 1
                /\ row.session_id = resp'.body.session_id
                /\ row.session_id = resp'.cookie
                /\ row.user_id = resp'.body.user_id
                /\ user_account[row.user_id].username =
                        Trim(ToLowerCase(Get(resp'.input.username)))
        /\ (StoredIds' \ StoredIds # {}) => (IsLoginAnswer' /\ resp'.status = 200)
        /\ IsLoginStep => user_session \subseteq user_session'
    ]_vars

\* a second login of the same account has answered 200 and both of its
\* sessions are in the store
TwoSessionsOfOneAccount ==
    /\ IsLoginAnswer
    /\ resp.status = 200
    /\ resp.body.session_id = "s2"
    /\ {r.session_id : r \in {x \in user_session : x.user_id = resp.body.user_id}}
            = {"s1", "s2"}

IsChangePasswordAnswer ==
    resp # NoResp /\ resp.by = "handler" /\ resp.handler = "change-password"

\* the body of a change-password request is refused: a password is missing,
\* the new one is shorter than 8 characters, or the current one does not
\* match the stored hash of account uid
PasswordChangeRefused(input, uid) ==
    \/ ~IsDefined(input.current_password) \/ Get(input.current_password) = ""
    \/ ~IsDefined(input.new_password) \/ Get(input.new_password) = ""
    \/ Len(Get(input.new_password)) < 8
    \/ user_account[uid].password_hash # password_hash(Get(input.current_password))

\* C13: POST /auth/change-password answers 401 without a valid session; 400,
\* with the stored hash and the must-change flag unchanged, when a password
\* is missing, the new one is shorter than 8 characters or the current one
\* does not match the stored hash; otherwise 204, and the stored hash becomes
\* the hash of the new password and password_must_change becomes false, for
\* the account of the session only.
PasswordChangeTable ==
    [][
        /\ (/\ resp' # NoResp
            /\ resp'.by = "gate"
            /\ resp'.path = <<"/", "auth", "/", "change-password">>
            /\ ~InStore(resp'.sessionId))
            => resp'.status = 401
        /\ IsChangePasswordAnswer' =>
            LET r == CHOOSE x \in reqs \ reqs' : TRUE
                input == resp'.input
                uid == resp'.body.user_id
            IN  IF r.pc = "cp_fetch" /\ ~InStore(r.sessionId)
                THEN resp'.status = 401 /\ user_account' = user_account
                ELSE IF PasswordChangeRefused(input, uid)
                THEN resp'.status = 400 /\ user_account' = user_account
                ELSE /\ resp'.status = 204
                     /\ user_account' =
                          [user_account EXCEPT ![uid] =
                             [@ EXCEPT !.password_hash =
                                          password_hash(Get(input.new_password)),
                                       !.password_must_change = FALSE]]
                     /\ \A x \in user_session :
                            x.session_id = r.sessionId.text[1] => x.user_id = uid
        /\ \A u \in Users :
            (\/ user_account'[u].password_hash # user_account[u].password_hash
             \/ user_account'[u].password_must_change
                    # user_account[u].password_must_change)
            => /\ IsChangePasswordAnswer'
               /\ resp'.status = 204
               /\ resp'.body.user_id = u
    ]_vars

\* C14: a login with a non-empty username and password whose credential
\* check, in the step that makes it, matches no account (unknown username, or
\* a known username of any status with a wrong password) gets one and the
\* same answer, which depends on nothing in the store, and changes nothing in
\* the store.
NoMatchAnswersAlike ==
    [][
        (/\ IsLoginAnswer'
         /\ \A r \in reqs \ reqs' : r.pc \notin {"login_update", "login_commit"}
         /\ ~InputMissing(resp'.input)
         /\ MatchingAccounts(resp'.input) = {})
        => /\ resp' = [by |-> "handler", path |-> <<"/", "auth", "/", "login">>,
                       input |-> resp'.input,
                       sessionId |-> [kind |-> "null", text |-> <<>>],
                       user |-> <<>>, handler |-> "login", status |-> 401,
                       error |-> "Invalid username or password",
                       cookie |-> "untouched", body |-> [none |-> TRUE],
                       pool |-> [connected |-> 1, released |-> 1]]
           /\ UNCHANGED <<user_account, user_session, issued, reqs, refreshes>>
    ]_vars

\* the username of an inactive account with a wrong password is answered 401
WrongPasswordOfInactiveAccount ==
    /\ IsLoginAnswer
    /\ resp.status = 401
    /\ \E u \in Users :
        /\ user_account[u].username = Trim(ToLowerCase(Get(resp.input.username)))
        /\ user_account[u].status = "inactive"
        /\ user_account[u].password_hash # password_hash(Get(resp.input.password))

\* a query parameter that is present and reads as a number
IsNumeric(o) ==
    IsDefined(o) /\ Trim(Get(o)) # <<>> /\ StringToNumber(Get(o)).kind # "nan"

\* C16: the limit passed to the store lies in [1, 1000]: a numeric limit
\* below 1 becomes 1, one above 1000 becomes 1000, one inside the range is
\* passed unchanged, an omitted or non-numeric limit becomes 200.  The offset
\* passed is at least 0: a negative offset becomes 0, and so does an omitted
\* or non-numeric one.
PageWindowClamped ==
    (call.fn = "ListWindow" /\ call.out # Pending) =>
        LET limit == call.out.value.limit
            offset == call.out.value.offset
            asked == StringToNumber(Get(call.args.limit))
            from == StringToNumber(Get(call.args.offset))
        IN  /\ ~LessThan(limit, Finite(10)) /\ ~LessThan(Finite(10000), limit)
            /\ IF ~IsNumeric(call.args.limit) THEN limit = Finite(2000)
               ELSE IF LessThan(asked, Finite(10)) THEN limit = Finite(10)
               ELSE IF LessThan(Finite(10000), asked) THEN limit = Finite(10000)
               ELSE limit = asked
            /\ ~LessThan(offset, Finite(0))
            /\ IF ~IsNumeric(call.args.offset) THEN offset = Finite(0)
               ELSE IF LessThan(from, Finite(0)) THEN offset = Finite(0)
               ELSE offset = from

IsSanitizerCall ==
    /\ call.fn \in {"sanitizeCreatePayload", "sanitizePatchPayload"}
    /\ call.out # Pending

\* the key list of the contracts router, as the source spells it
Whitelist ==
    {"title", "counterparty_name", "counterparty_contact", "counterparty_email",
     "internal_owner", "department", "department_id", "contract_type", "status",
     "status_id", "signed_date", "effective_date", "start_date", "end_date",
     "auto_renew", "renewal_term_months", "termination_notice_days",
     "termination_notice_deadline", "notes", "file_name"}

\* C17: the sanitized create payload contains exactly the whitelisted keys
\* the request carries with a defined value, the sanitized patch payload
\* exactly the whitelisted keys present in the request, a key whose value is
\* null staying null; a key outside the whitelist never appears.
SanitizedKeys ==
    IsSanitizerCall =>
        LET payload == call.args
            data == call.out.value
            carried == {k \in DOMAIN payload : payload[k] # [type |-> "undefined"]}
        IN  /\ call.fn = "sanitizeCreatePayload"
                => DOMAIN data = carried \cap Whitelist
            /\ call.fn = "sanitizePatchPayload"
                => DOMAIN data = DOMAIN payload \cap Whitelist
            /\ DOMAIN data \subseteq Whitelist
            /\ \A k \in DOMAIN data :
                    payload[k] = [type |-> "null"] => data[k] = [type |-> "null"]

\* a body with title null, a contract_id and a created_by is sanitized for
\* a patch: title stays, as null, and the two other keys are gone
NullKeptForeignKeysDropped ==
    /\ IsSanitizerCall
    /\ call.fn = "sanitizePatchPayload"
    /\ call.args = [title |-> [type |-> "null"],
                    contract_id |-> JsNumber(Whole(9)),
                    created_by |-> JsNumber(Whole(102))]
    /\ call.out.value = [title |-> [type |-> "null"]]

\* the word a value of auto_renew spells: its text in lower case without
\* the white space around it
SpelledWord(v) == ToLowerCase(Trim(String(v)))

\* the rule of the claim for auto_renew
BooleanRule(v) ==
    IF v.type \in {"boolean", "number", "string"}
       /\ SpelledWord(v) \in {<<"true">>, <<"1">>, <<"yes">>, <<"y">>, <<"on">>}
    THEN [type |-> "boolean", b |-> TRUE]
    ELSE IF v.type \in {"boolean", "number", "string"}
            /\ SpelledWord(v) \in {<<"false">>, <<"0">>, <<"no">>, <<"n">>, <<"off">>}
    THEN [type |-> "boolean", b |-> FALSE]
    ELSE [type |-> "null"]

\* the rule for an integer-typed field: null for null, empty and values
\* whose numeric parse is not finite; otherwise the parsed number, cut to its
\* integer part when truncating is set
IntegerRule(v, truncating) ==
    IF v.type = "null" \/ v = [type |-> "string", s |-> <<>>]
       \/ Number(v).kind # "finite"
    THEN [type |-> "null"]
    ELSE LET parsed == Number(v).scaled
             magnitude == IF parsed < 0 THEN -parsed ELSE parsed
             cut == (magnitude \div 10) * 10
         IN  [type |-> "number",
              n |-> [kind |-> "finite",
                     scaled |-> IF ~truncating THEN parsed
                                ELSE IF parsed < 0 THEN -cut ELSE cut]]

\* the rule for the other keys: a string is trimmed, the empty string
\* becomes null
StringRule(v) ==
    IF Trim(v.s) = <<>> THEN [type |-> "null"]
    ELSE [type |-> "string", s |-> Trim(v.s)]

CoercedBy(truncating) ==
    IsSanitizerCall =>
        \A k \in DOMAIN call.out.value :
            LET given == call.args[k]
                kept == call.out.value[k]
            IN  IF k = "auto_renew" THEN kept = BooleanRule(given)
                ELSE IF k \in {"renewal_term_months", "termination_notice_days",
                                "department_id", "status_id"}
                THEN kept = IntegerRule(given, truncating)
                ELSE given.type = "string" => kept = StringRule(given)

\* C18 as claimed: auto_renew maps true/1/yes/y/on to true, false/0/no/n/off
\* to false and every other value to null; an integer-typed field maps a
\* value whose numeric parse is finite to that number and every other value
\* to null; every other string is trimmed, the empty string becoming null.
CoercionKeepsParsedNumber == CoercedBy(FALSE)

\* C18 as amended: the same, except that an integer-typed field maps a value
\* whose numeric parse is finite to the integer part of that number (3.7
\* becomes 3, -2.5 becomes -2).
CoercionTruncatesNumber == CoercedBy(TRUE)

\* auto_renew ' Yes ' has become true and renewal_term_months ' 3.7' has
\* become 3
YesAndFractionCoerced ==
    /\ IsSanitizerCall
    /\ call.fn = "sanitizeCreatePayload"
    /\ "auto_renew" \in DOMAIN call.args
    /\ call.args["auto_renew"] = JsString(<<" ", "Yes", " ">>)
    /\ call.out.value["auto_renew"] = JsBoolean(TRUE)
    /\ "renewal_term_months" \in DOMAIN call.args
    /\ call.args["renewal_term_months"] = JsString(<<" ", "3", ".", "7">>)
    /\ call.out.value["renewal_term_months"] = JsNumber(Whole(3))

\* a lookup-table handler has answered in this step
IsLookupAnswer ==
    /\ resp = NoResp
    /\ resp' # NoResp
    /\ resp'.by = "handler"
    /\ resp'.handler \in {"departments", "statuses"}

\* the route parameters that name an integer id, and the id they name
IntegerParams == {<<"1">>, <<"2">>, <<"3">>, <<"9">>}

\* what the claim says of one request to the table t: its answer and the
\* table after it
LookupContract(t, input, status, body, before, after, assigned) ==
    LET name == IF input.method = "DELETE" THEN <<"-">>
                ELSE Trim(TextOrEmpty(input.name))
        taken(rows) == \E row \in rows : ToLowerCase(row.name) = ToLowerCase(name)
        id == DigitsValue(input.id[1])
        old == {row \in before : row.id = id}
    IN
    CASE input.method = "POST" ->
           /\ name = <<>> => status = 400 /\ after = before
           /\ name # <<>> /\ taken(before) => status = 409 /\ after = before
           /\ name # <<>> /\ ~taken(before) =>
                 /\ status = 201
                 /\ body.name = name
                 /\ body.id > assigned
                 /\ \A row \in before : row.id # body.id
                 /\ after = before \cup {body}
      [] input.method = "PATCH" /\ input.id \in IntegerParams ->
           /\ name = <<>> => status = 400 /\ after = before
           /\ name # <<>> /\ old = {} => status = 404 /\ after = before
           /\ name # <<>> /\ old # {} /\ ~taken(before \ old) =>
                 /\ status = 200
                 /\ body = [id |-> id, name |-> name]
                 /\ after = (before \ old) \cup {body}
      [] input.method = "DELETE" /\ input.id \in IntegerParams ->
           /\ old = {} => status = 404 /\ after = before
           /\ old # {} => status = 204 /\ after = before \ old
      [] OTHER -> TRUE

\* C15: in the departments and statuses tables, with a store that answers:
\* creating a row whose trimmed name a row of the table already has (case
\* ignored) yields 409 and leaves the table unchanged; creating with a free
\* non-empty name yields 201 with an id no row was assigned before and that
\* name, and adds only that row; an empty or whitespace-only name yields 400
\* and changes nothing; patching an existing id to a free non-empty name
\* answers 200 with the updated row and changes only that row; patching
\* (with a non-empty name) or deleting an integer id no row has yields 404
\* and changes nothing; deleting an existing id yields 204 and removes only
\* that row.  The other tables are never touched.
LookupTableContract ==
    [][IsLookupAnswer =>
          LET t == IF resp'.handler = "departments" THEN "department" ELSE "status"
          IN  /\ LookupContract(t, resp'.input, resp'.status, resp'.body,
                                lookup[t], lookup'[t], serial[t])
              /\ \A other \in Tables \ {t} : lookup'[other] = lookup[other]
              /\ contract' = contract]_vars

\* a department created by this API (id 3) is in the table and the row 1 has
\* just been renamed to a free name
RenamedBesideCreated ==
    /\ resp # NoResp
    /\ resp.by = "handler"
    /\ resp.handler = "departments"
    /\ resp.input.method = "PATCH"
    /\ resp.input.id = <<"1">>
    /\ resp.status = 200
    /\ resp.body = [id |-> 1, name |-> <<"fleet">>]
    /\ [id |-> 1, name |-> <<"fleet">>] \in lookup["department"]
    /\ \E row \in lookup["department"] : row.id = 3

\* the create requests that take a step: they leave reqs or move on in it
CreateSteps == {r \in reqs : r.table = "contract" /\ r.method = "POST" /\ r \notin reqs'}

\* the create handler has answered in this step
IsCreateAnswer ==
    /\ resp = NoResp
    /\ resp' # NoResp
    /\ resp'.by = "handler"
    /\ resp'.handler = "contracts"

\* what the create has done after the step
WorkAfter ==
    IF IsCreateAnswer THEN resp'.work
    ELSE (CHOOSE c \in reqs' \ reqs : c.table = "contract").work

\* what the create of r had done before the step
WorkBefore(r) ==
    IF r.pc = "table"
    THEN Work(WorkAfter.input, WorkAfter.sanitized, WorkAfter.sanitized, {})
    ELSE r.work

\* the id of the pair t was supplied, and is not null
IdSupplied(data, t) ==
    IdKey(t) \in DOMAIN data /\ data[IdKey(t)].type \notin {"null", "undefined"}

\* the name of the pair t is a non-empty string
NameSupplied(data, t) ==
    /\ NameKey(t) \in DOMAIN data
    /\ data[NameKey(t)].type = "string"
    /\ Trim(data[NameKey(t)].s) # <<>>

\* the rows of the table t whose name is the name of the pair, case ignored
NamedRows(data, t) ==
    {row \in lookup[t] :
        ToLowerCase(row.name) = ToLowerCase(Trim(data[NameKey(t)].s))}

\* C19: for each pair (department/department_id, status/status_id) of a
\* create, with a store that answers: a non-null id of the sanitized body is
\* kept and its table is never queried; a table is queried only when the id
\* is absent or null and the name is a non-empty string, and it has been
\* queried by the time the title is checked; the query sets the id to the id
\* of a row whose name equals the name case-insensitively and changes
\* nothing else; when no row matches, the body stays as it was and the
\* request goes on to the next statement or to the title check.
NameResolution ==
    [][\A r \in CreateSteps : \A t \in Tables :
          LET before == WorkBefore(r)
              after == WorkAfter
              sanitized == after.sanitized
          IN
          /\ IdSupplied(sanitized, t) =>
                /\ t \notin after.queried
                /\ after.body[IdKey(t)] = sanitized[IdKey(t)]
                /\ IsCreateAnswer /\ resp'.status = 201 =>
                      resp'.body.columns[IdKey(t)] = sanitized[IdKey(t)]
          /\ t \in after.queried => ~IdSupplied(sanitized, t) /\ NameSupplied(sanitized, t)
          /\ IsCreateAnswer /\ resp'.error \in {"", "title is required"}
                /\ ~IdSupplied(sanitized, t) /\ NameSupplied(sanitized, t) =>
                t \in after.queried
          /\ t \in after.queried \ before.queried =>
                /\ after.queried = before.queried \cup {t}
                /\ IF NamedRows(before.body, t) # {}
                   THEN /\ \E row \in NamedRows(before.body, t) :
                             after.body[IdKey(t)] = JsNumber(Whole(row.id))
                        /\ \A k \in DOMAIN before.body \ {IdKey(t)} :
                             after.body[k] = before.body[k]
                        /\ DOMAIN after.body = DOMAIN before.body \cup {IdKey(t)}
                   ELSE after.body = before.body
                /\ IsCreateAnswer => resp'.error = "title is required"
          /\ after.queried = before.queried => after.body = before.body]_vars

\* a create that carried the department ' Operations ' without an id, and the
\* status 'ACTIVE' with the id 1, has inserted the department id 1 and the
\* status id 1, and has queried the department table alone
DepartmentResolvedStatusKept ==
    /\ resp # NoResp
    /\ resp.by = "handler"
    /\ resp.handler = "contracts"
    /\ resp.status = 201
    /\ "department_id" \notin DOMAIN resp.work.input
    /\ ValueOf(resp.work.input, "department") = JsString(<<" ", "Operations", " ">>)
    /\ ValueOf(resp.work.input, "status") = JsString(<<"ACTIVE">>)
    /\ ValueOf(resp.work.input, "status_id") = JsNumber(Whole(1))
    /\ resp.work.queried = {"department"}
    /\ resp.body.columns["department_id"] = JsNumber(Whole(1))
    /\ resp.body.columns["status_id"] = JsNumber(Whole(1))
    /\ resp.body \in contract

\* the title of the sanitized body is missing, null or empty
TitleMissing(sanitized) ==
    \/ "title" \notin DOMAIN sanitized
    \/ sanitized["title"].type = "null"
    \/ sanitized["title"] = JsString(<<>>)

\* the row is over the sanitized fields: it carries each of them as sanitized
\* (an id that was null as resolved), and beside them only resolved ids and
\* the audit fields
OverSanitized(row, sanitized) ==
    /\ \A k \in DOMAIN sanitized :
          /\ k \in DOMAIN row.columns
          /\ \/ row.columns[k] = sanitized[k]
             \/ k \in {"department_id", "status_id"} /\ sanitized[k].type = "null"
    /\ DOMAIN row.columns \subseteq
          DOMAIN sanitized \cup {"department_id", "status_id", "created_by", "updated_by"}

LoginReportsCommittedStatus ==
    [][(IsLoginAnswer' /\ resp = NoResp /\ resp'.status = 200) =>
          resp'.body.status = user_account'[resp'.body.user_id].status]_vars

\* C24: when a login has been answered (200, 401, 403, or 500 after a throw
\* of pool.connect, BEGIN, the credential query, the UPDATE, the INSERT,
\* COMMIT or ROLLBACK), every connection it checked out has been released,
\* and none twice; a login answered 200, 401 or 403 has checked out one, a
\* login answered 400 has checked out none.
LoginReleasesOnce ==
    IsLoginAnswer =>
        /\ resp.pool.connected \in {0, 1}
        /\ resp.pool.released = resp.pool.connected
        /\ resp.status \in {200, 401, 403} => resp.pool.connected = 1
        /\ resp.status = 400 => resp.pool.connected = 0
        /\ resp.status \in {200, 400, 401, 403, 500}

\* a login whose credentials matched has been answered 500: a statement of
\* its transaction threw after the connection was checked out
LoginThrewHoldingConnection ==
    /\ IsLoginAnswer
    /\ resp.status = 500
    /\ MatchingAccounts(resp.input) # {}
    /\ resp.pool.connected = 1

\* the store statements the handler of a request in flight has sent so far
\* (the session lookup of the gate is not the handler's)
StatementsSent(r) ==
    CASE r.pc = "cp_check" -> 1
      [] r.pc = "cp_update" -> 2
      [] r.pc = "login_update" -> 2
      [] r.pc = "login_commit" -> 4
      [] r.pc = "create" -> Cardinality(r.work.queried)
      [] OTHER -> 0

\* C26: apart from login, every handler sends at most one store statement per
\* request: no request other than a login is in flight after a statement of
\* its handler and before another one.
SingleStatementHandlers ==
    \A r \in reqs :
        r.pc \notin {"login_update", "login_commit"} => StatementsSent(r) = 0

\* the session ids a client can present as a cookie
CookieIds == {[kind |-> "string", text |-> SidText(s)] : s \in SessionIds}

\* a detached refresh is applied, or fails, in this step
IsRefreshStep == refreshes' # refreshes /\ refreshes' \subseteq refreshes

\* a session row without its last_seen_at
WithoutLastSeen(row) == [session_id |-> row.session_id, user_id |-> row.user_id]

\* C25: the last-seen refresh is detached from the request.  It is started
\* only in a step in which the gate resolved the session to an account; the
\* step that applies it, or in which it fails, sends no response, touches no
\* request in flight and no account, and changes nothing of the session
\* table but last_seen_at, so that every session lookup of the gate or of a
\* handler answers the same before and after it; no response carries
\* last_seen_at.
RefreshDetached ==
    [][/\ \A s \in refreshes' \ refreshes :
            /\ resp' # NoResp
            /\ resp'.by \in {"gate", "next", "router", "handler"}
            /\ IsDefined(resp'.user)
            /\ resp'.sessionId.text = SidText(s)
            /\ IsDefined(fetchUserBySession(resp'.sessionId))
       /\ IsRefreshStep =>
            /\ resp = NoResp /\ resp' = NoResp
            /\ UNCHANGED <<user_account, reqs, issued, tables>>
            /\ {WithoutLastSeen(row) : row \in user_session'}
                  = {WithoutLastSeen(row) : row \in user_session}
            /\ Cardinality(user_session') = Cardinality(user_session)
            /\ \A id \in CookieIds :
                  fetchUserBySession(id)' = fetchUserBySession(id)
       /\ (resp' # NoResp /\ IsDefined(resp'.user)) =>
            "last_seen_at" \notin DOMAIN Get(resp'.user)]_vars

\* GET /auth/me has been answered 200 while the refresh the gate started for
\* its session is still pending
AnsweredBeforeRefresh ==
    /\ resp # NoResp
    /\ resp.by = "handler"
    /\ resp.handler = "me"
    /\ resp.status = 200
    /\ resp.sessionId.text[1] \in refreshes
    /\ \E row \in user_session :
          row.session_id = resp.sessionId.text[1] /\ row.last_seen_at = "created"

\* the place of a session id in the order randomUUID returns them
SidIndex(s) == CHOOSE i \in 1..Len(SidName) : SidName[i] = s

\* C28: the last-seen refresh never creates or restores a session: a session
\* id that has been issued, is not held by a login still in flight and has no
\* row (its row was deleted by a logout, or its login failed) has no row
\* after any step, the step of a pending refresh of that id included.
DeletedSessionStaysAbsent ==
    [][\A s \in SessionIds :
          (/\ SidIndex(s) <= issued
           /\ s \notin StoredIds
           /\ \A r \in reqs :
                 r.pc \in {"login_update", "login_commit"} => r.sessionId # s)
          => s \notin StoredIds']_vars

\* a logout has deleted the row of a session whose refresh is still pending
RefreshPendingAfterLogout ==
    /\ resp # NoResp
    /\ resp.by = "handler"
    /\ resp.handler = "logout"
    /\ resp.status = 204
    /\ resp.sessionId.kind = "string"
    /\ Len(resp.sessionId.text) = 1
    /\ resp.sessionId.text[1] \in refreshes
    /\ resp.sessionId.text[1] \notin StoredIds
    /\ SidIndex(resp.sessionId.text[1]) <= issued

\* POST /auth/logout is answered in this step
LogoutAnswers ==
    /\ resp = NoResp
    /\ resp' # NoResp
    /\ resp'.by = "handler"
    /\ resp'.handler = "logout"

\* C27: logout deletes only the presented session.  In the step that answers
\* a logout with session id s no account changes, no session row appears,
\* every session row with another id (of the same account or of another) is
\* kept as it is and resolves to the same account as before, and on 204 with
\* an id presented no row with id s is left.
LogoutDeletesOnlyPresented ==
    [][LogoutAnswers =>
        /\ user_account' = user_account
        /\ user_session' \subseteq user_session
        /\ \A row \in user_session :
              SidText(row.session_id) # resp'.sessionId.text =>
                 /\ row \in user_session'
                 /\ \A id \in CookieIds :
                       id.text = SidText(row.session_id) =>
                          /\ IsDefined(fetchUserBySession(id)')
                          /\ fetchUserBySession(id)' = fetchUserBySession(id)
        /\ (resp'.status = 204 /\ resp'.sessionId.kind = "string") =>
              \A row \in user_session' :
                 SidText(row.session_id) # resp'.sessionId.text]_vars

\* an account has logged out of its session while a session of the other
\* account is stored and still resolves to that account
LoggedOutBesideOther ==
    /\ resp # NoResp
    /\ resp.by = "handler"
    /\ resp.handler = "logout"
    /\ resp.status = 204
    /\ resp.sessionId.text = SidText("s2")
    /\ issued = 2
    /\ user_session # {}
    /\ \A row \in user_session : row.session_id = "s1" /\ row.user_id = 102
    /\ user_account[101].last_login_at = "s2"
    /\ IsDefined(fetchUserBySession([kind |-> "string", text |-> SidText("s1")]))

\* a handler of /contracts/:contract_id answers in this step
ByIdAnswers(method) ==
    /\ resp = NoResp
    /\ resp' # NoResp
    /\ resp'.by = "handler"
    /\ resp'.handler = "contracts"
    /\ "param" \in DOMAIN resp'
    /\ resp'.method = method

\* the value Number() gives the path id of an answer
PathId(answer) == JsNumber(Number(JsString(answer.param)))

\* every placeholder of the statement is bound to the value meant for it
BoundAsMeant(keys, data, id, actorId) ==
    LET statement == PatchStatement(keys, data, id, actorId)
    IN  /\ Len(statement.set) = Len(keys)
        /\ \A i \in 1..Len(keys) :
              /\ statement.set[i].column = keys[i]
              /\ statement.values[statement.set[i].param] = data[keys[i]]
        /\ statement.values[statement.where] = JsNumber(id)
        /\ IsDefined(statement.updated_by) = ~IsNullish(actorId)
        /\ IsDefined(statement.updated_by) =>
              statement.values[Get(statement.updated_by)] = actorId

\* the row is the old row with each sanitized field set to its sanitized
\* value, updated_at refreshed and updated_by set to the actor
PatchedFrom(new, old, data, actorId) ==
    /\ new.contract_id = old.contract_id
    /\ DOMAIN new.columns = DOMAIN old.columns \cup DOMAIN data
                                \cup {"updated_at", "updated_by"}
    /\ \A k \in DOMAIN new.columns :
          new.columns[k] =
             IF k \in DOMAIN data THEN data[k]
             ELSE IF k = "updated_at" THEN JsString(<<"now">>)
             ELSE IF k = "updated_by" THEN actorId
             ELSE old.columns[k]

\* C21: contract patch.  A body without a whitelisted key is answered 400
\* and nothing is updated.  Otherwise, when the store accepts the UPDATE: if
\* no row has the path id the answer is 404 and no row changes; if one has,
\* the answer is 200 with that row, in which each sanitized field has its own
\* sanitized value (an id resolved from a name included), updated_at is
\* refreshed and updated_by is the acting user's id, and no other row
\* changes.  Every placeholder of the generated statement is bound to the
\* value meant for it, with and without an acting identity.  A rejected
\* statement changes nothing.
ContractPatchContract ==
    [][(ByIdAnswers("PATCH") /\ isInteger(PathId(resp').n)) =>
        LET answer == resp'
            data == answer.work.body
            keys == Entries(answer.work.sanitized, data)
            actorId == ActorId(answer.user)
            target == ContractsWithId(PathId(answer))
        IN  /\ UNCHANGED <<lookup, serial>>
            /\ \A k \in DOMAIN answer.work.sanitized :
                  /\ k \in FieldSet
                  /\ answer.work.sanitized[k] = coerceField(k, answer.work.input[k])
                  /\ (k \notin {"department_id", "status_id"}
                        => data[k] = answer.work.sanitized[k])
            /\ DOMAIN answer.work.input \cap FieldSet = {} =>
                  /\ answer.status = 400
                  /\ answer.error = "No fields provided for update"
                  /\ answer.sent = 0
                  /\ contract' = contract
            /\ DOMAIN answer.work.input \cap FieldSet # {} =>
                  /\ ~IsNullish(actorId)
                  /\ BoundAsMeant(keys, data, PathId(answer).n, actorId)
                  /\ BoundAsMeant(keys, data, PathId(answer).n, JsNull)
                  /\ answer.store # "ok" =>
                        /\ contract' = contract
                        /\ answer.status = PatchFailure(answer.store).status
                  /\ (answer.store = "ok" /\ target = {}) =>
                        /\ answer.status = 404
                        /\ answer.error = "Contract not found"
                        /\ contract' = contract
                  /\ (answer.store = "ok" /\ target # {}) =>
                        /\ answer.status = 200
                        /\ answer.body \in contract'
                        /\ \E old \in target :
                              PatchedFrom(answer.body, old, data, actorId)
                        /\ contract' \ {answer.body} = contract \ target
                        /\ Cardinality(contract') = Cardinality(contract)]_vars

\* a patch of contract 1 that renames it, with a forged updated_by and a
\* contract_id in its body, has been answered 200
RenewedByPatch ==
    /\ resp # NoResp
    /\ resp.by = "handler"
    /\ resp.handler = "contracts"
    /\ "param" \in DOMAIN resp
    /\ resp.method = "PATCH"
    /\ resp.status = 200
    /\ resp.param = <<"1">>
    /\ DOMAIN resp.work.input = {"title", "department", "updated_by", "contract_id"}
    /\ resp.body.contract_id = 1
    /\ resp.body.columns["title"] = JsString(<<"Renewed">>)
    /\ resp.body.columns["department_id"] = JsNumber(Whole(1))
    /\ resp.body.columns["updated_by"] = JsNumber(Whole(101))
    /\ resp.body.columns["created_by"] = JsNumber(Whole(102))
    /\ resp.body.columns["updated_at"] = JsString(<<"now">>)
    /\ resp.body \in contract

\* the text is a well-formed integer: an optional sign and a run of digits
WellFormedInteger(text) ==
    \/ Len(text) = 1 /\ IsDigits(text[1])
    \/ Len(text) = 2 /\ text[1] = "-" /\ IsDigits(text[2])

\* a handler of /contracts/:contract_id answers in this step, whatever the
\* method
ByIdAnswersAny == \E method \in {"GET", "PATCH", "DELETE"} : ByIdAnswers(method)

\* C22: get, patch and delete by id.  A path id that is not a well-formed
\* integer is answered 400 and no statement is sent.  When the store answers:
\* a delete of an id without a row is answered 404 and removes nothing, a
\* delete of an id with a row is answered 204 and removes exactly that row,
\* and a get of an id without a row is answered 404.
ByIdContract ==
    [][ByIdAnswersAny =>
        LET answer == resp'
            target == ContractsWithId(PathId(answer))
        IN  /\ ~WellFormedInteger(answer.param) =>
                  /\ answer.status = 400
                  /\ answer.error = "Invalid contract_id"
                  /\ answer.sent = 0
                  /\ UNCHANGED tables
            /\ (WellFormedInteger(answer.param) /\ answer.store = "ok"
                   /\ answer.method = "DELETE") =>
                  /\ target = {} => answer.status = 404 /\ contract' = contract
                  /\ target # {} =>
                        /\ answer.status = 204
                        /\ contract' = contract \ target
                        /\ Cardinality(target) = 1
            /\ (WellFormedInteger(answer.param) /\ answer.store = "ok"
                   /\ answer.method = "GET") =>
                  /\ UNCHANGED tables
                  /\ target = {} => answer.status = 404
                  /\ target # {} => answer.status = 200 /\ answer.body \in target]_vars

\* the text has no white space at its ends, which the handlers trim
Trimmed(text) == text # <<>> /\ Trim(text) = text

\* POST /departments is answered 201 in this step
DepartmentCreated ==
    /\ IsLookupAnswer
    /\ resp'.handler = "departments"
    /\ resp'.input.method = "POST"
    /\ resp'.status = 201

\* POST /contracts is answered 201 in this step
ContractCreated ==
    /\ IsCreateAnswer
    /\ "param" \notin DOMAIN resp'
    /\ resp'.status = 201

\* the text fields of a contract
TextFields == FieldSet \ (IntegerFields \cup {"auto_renew"})

SessionAccount(sessionId) ==
    (CHOOSE row \in user_session : SidText(row.session_id) = sessionId.text).user_id

\* PATCH /contracts/:contract_id is answered 200 in this step
ContractPatched == ByIdAnswers("PATCH") /\ resp'.status = 200

\* C29: the audit fields cannot be forged.  The row a contract create stores
\* has created_by and updated_by equal to the user id of the account of the
\* session, and the row a contract patch updates has updated_by equal to it,
\* whatever created_by and updated_by the body carries.
AuditFromSession ==
    [][/\ ContractCreated =>
            /\ resp'.body \in contract'
            /\ resp'.body.columns["created_by"]
                  = JsNumber(Whole(SessionAccount(resp'.sessionId)))
            /\ resp'.body.columns["updated_by"]
                  = JsNumber(Whole(SessionAccount(resp'.sessionId)))
       /\ ContractPatched =>
            /\ resp'.body \in contract'
            /\ resp'.body.columns["updated_by"]
                  = JsNumber(Whole(SessionAccount(resp'.sessionId)))
       /\ \A row \in contract' \ contract :
            ContractCreated \/ ContractPatched]_vars

\* a create whose body names the other account in created_by and updated_by
\* has stored a row of the account of the session
ForgedCreateStored ==
    /\ resp # NoResp
    /\ resp.by = "handler"
    /\ resp.handler = "contracts"
    /\ "param" \notin DOMAIN resp
    /\ resp.status = 201
    /\ ValueOf(resp.work.input, "created_by") = JsNumber(Whole(102))
    /\ ValueOf(resp.work.input, "updated_by") = JsNumber(Whole(102))
    /\ resp.body \in contract
    /\ resp.body.columns["created_by"] = JsNumber(Whole(101))
    /\ resp.body.columns["updated_by"] = JsNumber(Whole(101))
    /\ SessionAccount(resp.sessionId) = 101

\* C31: a login never commits a session for an account that is inactive in
\* the store at the commit: in every step in which a session row appears,
\* the stored status of its account is not inactive, whatever change of the
\* status from outside the login was interleaved with.
NoSessionForInactive ==
    [][\A row \in user_session' \ user_session :
          user_account'[row.user_id].status # "inactive"]_vars

\* the handlers mounted on the exempt paths
PublicHandlers == {"login", "logout"}

\* the request of the answer has passed the gate with a session resolved to
\* an account, on a path that is not exempt
PassedWithAccount(answer) ==
    /\ ~isAuthExemptPath(answer.path)
    /\ IsDefined(answer.user)
    /\ answer.sessionId.kind = "string"
    /\ Get(answer.user).user_id \in Users

\* C32: the path exemption opens no bypass.  Whatever the path of a request,
\* a path exempt only by its suffix or by trailing slashes included: a
\* request enters a handler other than login and logout only on a path that
\* is not exempt and with a session the gate resolved to an account; a
\* request forwarded on an exempt path reaches login, logout or no handler;
\* and a handler that answers in a later step answers a request that entered
\* it so.
ExemptionOpensNoBypass ==
    [][/\ (/\ resp = NoResp /\ resp' # NoResp
           /\ resp'.by \in {"next", "handler", "router"}
           /\ (resp'.by = "next" \/ reqs' = reqs)) =>
            /\ resp'.by = "router" => resp'.handler = "none"
            /\ resp'.handler \notin PublicHandlers \cup {"none"} =>
                  PassedWithAccount(resp')
            /\ isAuthExemptPath(resp'.path) =>
                  /\ resp'.handler \in PublicHandlers \cup {"none"}
                  /\ ~IsDefined(resp'.user)
       /\ \A r \in reqs' \ reqs :
            r.pc \in {"me", "cp_fetch"} =>
               /\ resp'.by = "next"
               /\ resp'.handler \in {"me", "change-password"}
               /\ PassedWithAccount(resp')
       /\ (/\ resp = NoResp /\ resp' # NoResp
           /\ resp'.by = "handler"
           /\ resp'.handler \in {"me", "change-password"}) =>
            \E r \in reqs \ reqs' :
               r.pc \in {"me", "cp_fetch", "cp_check", "cp_update"}
       /\ \A r \in reqs' \ reqs :
            r.pc \in {"cp_check", "cp_update"} =>
               \E q \in reqs \ reqs' : q.pc \in {"cp_fetch", "cp_check"}]_vars

\* a request for /contracts//auth/login, exempt by its suffix, has passed the
\* gate without a session and met no route
SuffixExemptMetNoRoute ==
    /\ resp # NoResp
    /\ resp.by = "router"
    /\ resp.path = PathContracts \o <<"/">> \o PathLogin
    /\ isAuthExemptPath(resp.path)
    /\ resp.path \notin AUTH_EXEMPT_PATHS
    /\ ~IsDefined(resp.user)
    /\ resp.handler = "none"
    /\ resp.status = 404

====
